---- MODULE Spec2Model ----
(***************************************************************************)
(* The Referee of src/referee/referee.py with its collaborators            *)
(* (src/referee/models.py, src/referee/rules.py), as a state machine.      *)
(*                                                                         *)
(* Threads call validate, add_rule, reset and clear_cache on Referee       *)
(* objects.  Each call is split at the points where another thread can     *)
(* observe or change shared state: taking the lock, the ceiling check, the *)
(* counter increment, the lru_cache lookup, every rule evaluation, the     *)
(* lru_cache store and the release of the lock.                            *)
(*                                                                         *)
(* Spec has one caller on Referee "A" with every kind of argument;         *)
(* SpecConc has two callers on Referee "A" with fewer kinds of argument.   *)
(* The state is kept per Referee, and the lru_cache is one for the class,  *)
(* keyed by (Referee, Action).                                             *)
(*                                                                         *)
(* SpecCtor has one caller of the constructor, with arguments at and      *)
(* around every check of __init__.  SpecRules has one caller of            *)
(* rule.evaluate, of CachedValidationRule.clear_cache and of the Action    *)
(* comparisons, without any Referee.                                       *)
(*                                                                         *)
(* SpecTwo has one caller on the two Referees "A" and "B".  SpecConcFair   *)
(* is SpecConc with every thread scheduled while it can take a step.       *)
(* SpecCallback has one caller, scheduled while it can take a step, on a   *)
(* Referee whose rules may call reset() on it from inside evaluate.        *)
(* SpecCalc has one caller of the calculators of src/calculator and of     *)
(* examples/merge-strategies.                                              *)
(*                                                                         *)
(* validate's last handler (except Exception: raise ValidationError) is    *)
(* not reached by the arguments drawn here: every exception of a rule is   *)
(* caught inside the loop of _validate_uncached.                           *)
(***************************************************************************)
EXTENDS Integers, Sequences, FiniteSets, TLC

\* ------------------------------------------------------------------ bounds
\* longest rule list a Referee is grown to
MaxRules == 2
\* largest max_validations a Referee is constructed with
MaxCeiling == 2
\* longest rule list when two threads call concurrently
MaxRulesConc == 1
\* longest rules argument handed to the constructor
MaxCtorRules == 2
\* largest numerator and denominator of the numbers a calculator works on
MaxNumber == 2

\* -------------------------------------------------------- program constants
\* the largest max_validations the constructor accepts
MaxValidationsLimit == 1000000

\* ------------------------------------------------- calculator: the numbers
\* a Python number is the fraction <<n, d>> in lowest terms with d > 0;
\* None is <<0, 0>>
RECURSIVE GCD(_, _)
GCD(m, n) == IF n = 0 THEN m ELSE GCD(n, m % n)
Abs(n) == IF n < 0 THEN 0 - n ELSE n
Norm(n, d) ==
    LET g == GCD(Abs(n), Abs(d))
        sgn == IF d < 0 THEN 0 - 1 ELSE 1
    IN <<(sgn * n) \div g, (sgn * d) \div g>>
Num(n) == <<n, 1>>
None == <<0, 0>>
Numbers == {Norm(n, d) : n \in (0 - MaxNumber)..MaxNumber, d \in 1..MaxNumber}

\* operations.py: the execute of AddOperation, SubtractOperation,
\* MultiplyOperation, and the a / b of DivideOperation
Plus(x, y) == Norm(x[1] * y[2] + y[1] * x[2], x[2] * y[2])
Minus(x, y) == Norm(x[1] * y[2] - y[1] * x[2], x[2] * y[2])
Times(x, y) == Norm(x[1] * y[1], x[2] * y[2])
Over(x, y) == Norm(x[1] * y[2], x[2] * y[1])
Arith(method, x, y) ==
    CASE method = "add" -> Plus(x, y)
      [] method = "subtract" -> Minus(x, y)
      [] method = "multiply" -> Times(x, y)
      [] method = "divide" -> Over(x, y)

\* "b == 0", "value == 0"
IsZero(x) == x = Num(0)

\* an exception that carries the divisor
DivisionByZeroError_of_divisor(x) ==
    [kind |-> "raised", exc |-> "DivisionByZeroError", value |-> Num(0)]
\* exceptions.py: DivisionByZeroError(x) keeps x as dividend or current_result
\* and renders it in its message
DivisionByZeroError(x) ==
    [kind |-> "raised", exc |-> "DivisionByZeroError", value |-> x]
\* strategy-a: InvalidOperationError(operation, available)
InvalidOperationError == [kind |-> "raised", exc |-> "InvalidOperationError", value |-> None]
Computed(x) == [kind |-> "value", exc |-> "", value |-> x]

\* calculator/operations.py: DivideOperation.execute(a, b), and the
\* execute of the other operations
Operation_execute(method, a, b) ==
    IF method = "divide" /\ IsZero(b) THEN DivisionByZeroError(a)
    ELSE Computed(Arith(method, a, b))

\* the Calculator classes: calculator/calculator.py works on two operands
\* and keeps _last_result; those of examples/merge-strategies keep a running
\* _result (strategy-a through execute(operation, value), strategy-b and
\* strategy-c through one method per operation)
TwoOperand == "calculator"
Accumulators == {"strategy-a", "strategy-b", "strategy-c"}
Calculators == {TwoOperand} \cup Accumulators
NoCalc == [kind |-> "none", value |-> None]
Methods == {"add", "subtract", "multiply", "divide"}
\* the operation names given to strategy-a's execute; "power" is not one of them
OperationNames == Methods \cup {"power"}

\* ------------------------------------------------------------ the objects
Referees == {"A", "B"}
Threads == {"t1", "t2"}
NoThread == "nobody"
NoRef == "-"

\* models.py: Action(action_type, data); data stands for a dict value
Action(t, d) == [action_type |-> t, data |-> d]
NoAction == Action("", "")
Actions == {Action("login", "d0"), Action("login", "d1"), Action("logout", "d0")}

\* hash(str): a function of the string, fixed for the life of the process
str_hash(s) == CASE s = "login" -> 11 [] s = "logout" -> 12 [] OTHER -> 10
\* str(dict): the rendering of the data
dict_str(d) == CASE d = "d0" -> "{'n': 0}" [] d = "d1" -> "{'n': 1}" [] OTHER -> "{}"

\* the __eq__ that @dataclass generates: the tuples of the fields compared
Action_eq(a, b) == <<a.action_type, a.data>> = <<b.action_type, b.data>>
\* a hash over both fields
Action_hash_fields(a) == str_hash(a.action_type) + (IF a.data = "d0" THEN 0 ELSE 100)
\* Action.__hash__
Action_hash(a) == str_hash(a.action_type)

\* what a caller may pass as validate's argument
ArgNone == [tag |-> "None", action |-> NoAction]
ArgStr == [tag |-> "str", action |-> NoAction]
ArgAction(a) == [tag |-> "Action", action |-> a]
ValidateArgs == {ArgNone, ArgStr} \cup {ArgAction(a) : a \in Actions}

\* rules.py: the Rule objects handed to add_rule.  cls names the class that
\* implements evaluate; HookRaisesRule is a ValidationRule subclass whose
\* _validate raises RuntimeError("boom"), BrokenRule a direct Rule subclass
\* whose evaluate raises RuntimeError("boom").
RuleObj(cls, name, expected) == [cls |-> cls, name |-> name, expected_type |-> expected]
NoRule == RuleObj("", "", "")
AlwaysValidRule == RuleObj("AlwaysValidRule", "AlwaysValidRule", "")
ActionTypeRule(expected) ==
    RuleObj("ActionTypeRule", IF expected = "login" THEN "ActionTypeRule(login)"
                              ELSE "ActionTypeRule(logout)", expected)
HookRaisesRule == RuleObj("HookRaisesRule", "HookRaisesRule", "")
BrokenRule == RuleObj("BrokenRule", "BrokenRule", "")
Rules == {AlwaysValidRule, ActionTypeRule("login"), HookRaisesRule, BrokenRule}

\* CallbackRule is a ValidationRule subclass that holds a reference to the
\* Referee it is registered with; its _validate calls referee.reset() and
\* returns (True, "called back").  add_rule and validate of the Referee
\* begin with the same "with self._lock:" as reset.
CallbackRule == RuleObj("CallbackRule", "CallbackRule", "")

\* more ValidationRule subclasses, for calls of evaluate itself:
\* HookRejectsRule's _validate raises ValidationError("rejected");
\* CachedRule is a CachedValidationRule subclass that implements the abstract
\* _validate_uncached(self, action); CachedRule3 is one whose
\* _validate_uncached takes the three arguments that _validate passes
HookRejectsRule == RuleObj("HookRejectsRule", "HookRejectsRule", "")
CachedRule == RuleObj("CachedRule", "CachedRule", "")
CachedRule3 == RuleObj("CachedRule3", "CachedRule3", "")
CachedRules == {CachedRule, CachedRule3}
EvalRules == {AlwaysValidRule, ActionTypeRule("login"), ActionTypeRule("logout"),
              HookRaisesRule, HookRejectsRule} \cup CachedRules

\* what a caller may pass as add_rule's argument
RuleArgNone == [tag |-> "None", rule |-> NoRule]
RuleArgStr == [tag |-> "str", rule |-> NoRule]
RuleArg(r) == [tag |-> "Rule", rule |-> r]
AddRuleArgs == {RuleArgNone, RuleArgStr} \cup {RuleArg(r) : r \in Rules}

\* -------------------------------------------------- rules.py: evaluation
Returned(passed, text) == [kind |-> "returned", passed |-> passed, text |-> text]
Raised(exc, text) == [kind |-> exc, passed |-> FALSE, text |-> text]

\* an ActionTypeRule that compares nothing
ActionTypeRule_validate_any(rule, action) ==
    Returned(TRUE, <<"Action type '", action.action_type, "' is valid">>)

\* ActionTypeRule._validate
ActionTypeRule_validate(rule, action) ==
    IF action.action_type = rule.expected_type
    THEN Returned(TRUE, <<"Action type '", action.action_type, "' is valid">>)
    ELSE Returned(FALSE, <<"Expected action type '", rule.expected_type,
                           "', got '", action.action_type, "'">>)

\* AlwaysValidRule._validate
AlwaysValidRule_validate(rule, action) == Returned(TRUE, <<"Action is valid">>)

\* the hook of each ValidationRule subclass that keeps no cache
Hook(rule, action) ==
    CASE rule.cls = "ActionTypeRule" -> ActionTypeRule_validate(rule, action)
      [] rule.cls = "AlwaysValidRule" -> AlwaysValidRule_validate(rule, action)
      [] rule.cls = "HookRejectsRule" -> Raised("ValidationError", <<"rejected">>)
      [] OTHER -> Raised("RuntimeError", <<"boom">>)

\* an evaluate that lets the hook's exceptions through
Handled_raw(rule, h) == h
\* ValidationRule.evaluate, what it does with the hook's outcome: return the
\* pair, re-raise a ValidationError, wrap any other exception into a
\* ValidationError
Handled(rule, h) ==
    IF h.kind \in {"returned", "ValidationError"} THEN h
    ELSE Raised("ValidationError", <<"Rule '", rule.name, "' failed: ">> \o h.text)

\* ValidationRule.evaluate on an Action
ValidationRule_evaluate(rule, action) == Handled(rule, Hook(rule, action))

\* CachedValidationRule: the key under which _validate asks the lru_cache
\* wrapper, (hash(action), action.action_type, str(action.data))
RuleCacheKey(action) == <<Action_hash(action), action.action_type, dict_str(action.data)>>
NoOutcome == [kind |-> "none", passed |-> FALSE, text |-> <<>>]
EmptyRuleCache == [k \in {} |-> NoOutcome]

\* the _validate_uncached of the CachedValidationRule subclasses
CachedRule_validate_uncached(rule, action) ==
    Returned(action.action_type = "login", <<"checked">>)
CachedRule3_validate_uncached(rule, h, action_type, data_str) ==
    Returned(action_type = "login", <<"checked ", data_str>>)
\* the parameters _validate_uncached takes after self
HookArity(rule) == IF rule.cls = "CachedRule3" THEN 3 ELSE 1

\* the lru_cache wrapper misses and calls the bound _validate_uncached with the
\* key's three positional arguments; a hook with other parameters does not
\* run, the call raises TypeError
CallUncached(rule, action) ==
    IF HookArity(rule) = Len(RuleCacheKey(action))
    THEN [ran |-> TRUE,
          out |-> CachedRule3_validate_uncached(rule, Action_hash(action),
                                                action.action_type, dict_str(action.data))]
    ELSE [ran |-> FALSE,
          out |-> Raised("TypeError",
                         <<rule.cls, "._validate_uncached() takes 2 positional arguments ",
                           "but 4 were given">>)]

\* CachedValidationRule.clear_cache: self._cached_validate.cache_clear()
rule_cache_clear(c) == EmptyRuleCache

\* an evaluate without its isinstance check
IsActionInstance_any(arg) == TRUE
\* ValidationRule.evaluate's input validation: isinstance(action, Action)
IsActionInstance(arg) == arg.tag = "Action"

\* Rule.evaluate as the Referee calls it, whatever the class of the rule
evaluate(rule, action) ==
    IF rule.cls = "BrokenRule" THEN Raised("RuntimeError", <<"boom">>)
    ELSE ValidationRule_evaluate(rule, action)

\* ------------------------------------------------- models.py: the results
\* a message "[<prefix>] <form>: <text>"; form "" is the rule's own message
Message(prefix, form, text) == [prefix |-> prefix, form |-> form, text |-> text]

\* ValidationResult.create; outcomes is the history of the rule outcomes
\* behind the result (TRUE: evaluate returned passed), not a Python field
ValidationResult(is_valid, messages, metadata, outcomes) ==
    [is_valid |-> is_valid, messages |-> messages, metadata |-> metadata,
     outcomes |-> outcomes]
Metadata(ev, pa, fa, vn) ==
    [rules_evaluated |-> ev, rules_passed |-> pa, rules_failed |-> fa,
     validation_number |-> vn]
NoResult == ValidationResult(FALSE, <<>>, Metadata(0, 0, 0, 0), <<>>)

\* the locals of _validate_uncached when it starts
InitLocals(vn) ==
    [messages |-> <<>>, is_valid |-> TRUE, metadata |-> Metadata(0, 0, 0, vn),
     outcomes |-> <<>>, stop |-> FALSE]
NoLocals == InitLocals(0)

\* _validate_uncached, the fast path: no rules configured
NoRulesResult(loc) ==
    ValidationResult(TRUE,
        Append(loc.messages,
               Message("", "", <<"No rules configured - action accepted by default">>)),
        loc.metadata, loc.outcomes)

\* a loop body that goes on after a rule returned passed = false
OnReturned_goes_on(loc, rule, o, failFast) ==
    LET m == loc.metadata IN
    [loc EXCEPT
       !.messages = Append(@, Message(rule.name, "", o.text)),
       !.metadata = Metadata(m.rules_evaluated + 1,
                             m.rules_passed + (IF o.passed THEN 1 ELSE 0),
                             m.rules_failed + (IF o.passed THEN 0 ELSE 1),
                             m.validation_number),
       !.is_valid = @ /\ o.passed,
       !.outcomes = Append(@, o.passed),
       !.stop = FALSE]

\* a loop body that counts no rule as passed
OnReturned_uncounted(loc, rule, o, failFast) ==
    LET m == loc.metadata IN
    [loc EXCEPT
       !.messages = Append(@, Message(rule.name, "", o.text)),
       !.metadata = Metadata(m.rules_evaluated + 1,
                             m.rules_passed,
                             m.rules_failed + (IF o.passed THEN 0 ELSE 1),
                             m.validation_number),
       !.is_valid = @ /\ o.passed,
       !.outcomes = Append(@, o.passed),
       !.stop = ~o.passed /\ failFast]

\* _validate_uncached, the loop body when evaluate returned (passed, message)
OnReturned(loc, rule, o, failFast) ==
    LET m == loc.metadata IN
    [loc EXCEPT
       !.messages = Append(@, Message(rule.name, "", o.text)),
       !.metadata = Metadata(m.rules_evaluated + 1,
                             m.rules_passed + (IF o.passed THEN 1 ELSE 0),
                             m.rules_failed + (IF o.passed THEN 0 ELSE 1),
                             m.validation_number),
       !.is_valid = @ /\ o.passed,
       !.outcomes = Append(@, o.passed),
       !.stop = ~o.passed /\ failFast]

\* a loop body with one except branch for every exception
OnRaised_one_form(loc, rule, o, failFast) ==
    LET m == loc.metadata IN
    [loc EXCEPT
       !.messages = Append(@, Message(rule.name, "Error", o.text)),
       !.metadata = Metadata(m.rules_evaluated + 1, m.rules_passed,
                             m.rules_failed + 1, m.validation_number),
       !.is_valid = FALSE,
       !.outcomes = Append(@, FALSE),
       !.stop = failFast]

\* a loop body whose except branches record no message
OnRaised_silent(loc, rule, o, failFast) ==
    LET m == loc.metadata IN
    [loc EXCEPT
       !.metadata = Metadata(m.rules_evaluated + 1, m.rules_passed,
                             m.rules_failed + 1, m.validation_number),
       !.is_valid = FALSE,
       !.outcomes = Append(@, FALSE),
       !.stop = failFast]

\* a loop body whose except branches leave is_valid as it was
OnRaised_still_valid(loc, rule, o, failFast) ==
    LET m == loc.metadata IN
    [loc EXCEPT
       !.messages = Append(@, Message(rule.name,
                               IF o.kind = "ValidationError" THEN "ValidationError"
                               ELSE "Error", o.text)),
       !.metadata = Metadata(m.rules_evaluated + 1, m.rules_passed,
                             m.rules_failed + 1, m.validation_number),
       !.outcomes = Append(@, FALSE),
       !.stop = failFast]

\* _validate_uncached, the loop's except branches: evaluate raised
\* ValidationError, or any other Exception
OnRaised(loc, rule, o, failFast) ==
    LET m == loc.metadata IN
    [loc EXCEPT
       !.messages = Append(@, Message(rule.name,
                               IF o.kind = "ValidationError" THEN "ValidationError"
                               ELSE "Error", o.text)),
       !.metadata = Metadata(m.rules_evaluated + 1, m.rules_passed,
                             m.rules_failed + 1, m.validation_number),
       !.is_valid = FALSE,
       !.outcomes = Append(@, FALSE),
       !.stop = failFast]

\* _validate_uncached, one turn of the loop over self._rules
ApplyRule(loc, rule, action, failFast) ==
    LET o == evaluate(rule, action) IN
    IF o.kind = "returned" THEN OnReturned(loc, rule, o, failFast)
    ELSE OnRaised(loc, rule, o, failFast)

\* _validate_uncached, the return after the loop
LoopResult(loc) ==
    ValidationResult(loc.is_valid, loc.messages, loc.metadata, loc.outcomes)

\* ----------------------------------------------- referee.py: the Referee
\* a limit check that lets one call too many through
CeilingReached_past(count, max) == count > max

\* validate's resource limit check
CeilingReached(count, max) == count >= max

\* a lock that excludes nobody
LockAvailable_ignored(holder) == TRUE

\* threading.Lock: free to be taken when nobody holds it
LockAvailable(holder) == holder = NoThread

\* a with block that keeps the lock when it is left
Released_never(holder) == holder
\* leaving "with self._lock:", by return or by exception, releases the lock
Released(holder) == NoThread

\* an add_rule without its isinstance check
IsRule_any(arg) == TRUE

\* add_rule's input validation: rule is not None and isinstance(rule, Rule)
IsRule(arg) == arg.tag = "Rule"

\* a validate without its isinstance check
IsAction_any(arg) == TRUE

\* validate's input validation: action is not None and isinstance(action, Action)
IsAction(arg) == arg.tag = "Action"

\* functools.lru_cache on the method _validate_cached: one cache for the
\* class, keyed by the call's arguments (self, action); Action.__eq__ is the
\* dataclass's and compares action_type and data.  maxsize is 1024 and the
\* keys of this model are fewer, so nothing is evicted.
CacheKey(self, action) == <<self, action>>
CacheKeys == {CacheKey(r, a) : r \in Referees, a \in Actions}
EmptyCache == [k \in {} |-> NoResult]
\* a wrapper that never finds a key
CacheHit_never(c, key) == FALSE
CacheHit(c, key) == key \in DOMAIN c
CacheStore(c, key, result) == IF key \in DOMAIN c THEN c ELSE (key :> result) @@ c
\* a clear_cache that finds no cache_clear attribute and does nothing
cache_clear_noop(c) == c
\* _validate_cached.cache_clear()
cache_clear(c) == EmptyCache

\* a validate that forgets to count
Increment_none(count) == count
\* self._validation_count += 1
Increment(count) == count + 1

\* an add_rule that puts the new rule first
AppendRule_front(rs, rule) == <<rule>> \o rs
\* self._rules.append(rule)
AppendRule(rs, rule) == Append(rs, rule)

\* a _validate_uncached without its fast path
NoRulesConfigured_never(rs) == FALSE
\* _validate_uncached's fast path test: not self._rules
NoRulesConfigured(rs) == rs = <<>>

\* a constructor that accepts any max_validations
InRange_any(m) == TRUE
\* __init__'s input validation of max_validations
InRange(m) == ~(m < 1 \/ m > MaxValidationsLimit)

\* a constructor that lets the exceptions of its body through
InitFailure_reraised(exc, text) == [exc |-> exc, text |-> text]
\* __init__'s handler: every Exception of the body becomes a ConfigurationError
InitFailure(exc, text) ==
    [exc |-> "ConfigurationError", text |-> <<"Referee initialization failed: ">> \o text]

\* a reset that leaves the counter
CountAfterReset_keep(count) == count
\* reset: self._validation_count = 0
CountAfterReset(count) == 0

VARIABLES
    rules,              \* Referee._rules
    validation_count,   \* Referee._validation_count
    max_validations,    \* Referee._max_validations
    enable_caching,     \* Referee._enable_caching
    fail_fast,          \* Referee._fail_fast
    lock,               \* Referee._lock: the thread holding it
    cache,              \* the lru_cache of Referee._validate_cached
    pc,                 \* where each thread is in its call
    frame,              \* the arguments and locals of each thread's call
    ret,                \* what each thread's call returned or raised
    validCalls,         \* history: validate calls with an Action since the last reset
    succCalls,          \* history: validate calls that returned since the last reset
    lastValidate,       \* history: the latest result validate settled on, per Referee
    purged,             \* history: keys purged and not validated since
    rule_cache,         \* the lru_cache of each CachedValidationRule object
    rule_seen,          \* history: the <<rule, key>> evaluated since its clear_cache
    calc                \* the Calculator object: its class and _last_result or _result

progVars == <<rules, validation_count, max_validations, enable_caching, fail_fast,
              lock, cache>>
histVars == <<validCalls, succCalls, lastValidate, purged>>
ruleVars == <<rule_cache, rule_seen>>
vars == <<rules, validation_count, max_validations, enable_caching, fail_fast,
          lock, cache, pc, frame, ret, validCalls, succCalls, lastValidate, purged,
          rule_cache, rule_seen, calc>>

\* the rule objects when they are constructed: nothing memoized
InitRuleObjects ==
    /\ rule_cache = [n \in {c.name : c \in CachedRules} |-> EmptyRuleCache]
    /\ rule_seen = {}

NoRet == [kind |-> "none", exc |-> "", text |-> <<>>, result |-> NoResult,
          passed |-> FALSE, eq |-> FALSE, hashes |-> <<0, 0>>, value |-> None]
RetNone == [NoRet EXCEPT !.kind = "returned"]
RetResult(res) == [NoRet EXCEPT !.kind = "result", !.result = res]
RetRaise(exc, text) == [NoRet EXCEPT !.kind = "raised", !.exc = exc, !.text = text]
RetPair(passed, text) == [NoRet EXCEPT !.kind = "pair", !.passed = passed, !.text = text]
RetCompared(eq, h1, h2) == [NoRet EXCEPT !.kind = "compared", !.eq = eq, !.hashes = <<h1, h2>>]
\* what evaluate gives its caller for the outcome o
RetOutcome(o) == IF o.kind = "returned" THEN RetPair(o.passed, o.text)
                 ELSE RetRaise(o.kind, o.text)

\* the arguments of Referee(rules, max_validations, enable_caching, fail_fast);
\* rules is None, a list of items, or some other object (a tuple)
CtorArgs(rs, m, caching, failFast) ==
    [rules |-> rs, max_validations |-> m, enable_caching |-> caching,
     fail_fast |-> failFast]
RulesNone == [tag |-> "None", items |-> <<>>]
RulesTuple == [tag |-> "tuple", items |-> <<>>]
RulesList(items) == [tag |-> "list", items |-> items]
NoCtorArgs == CtorArgs(RulesNone, 0, FALSE, FALSE)

NoLast == [live |-> FALSE, action |-> NoAction, result |-> NoResult]

IdleFrame ==
    [op |-> "none", ref |-> NoRef, arg |-> ArgNone, rule |-> RuleArgNone,
     i |-> 0, loc |-> NoLocals, result |-> NoResult, ctor |-> NoCtorArgs,
     other |-> NoAction, hook |-> NoOutcome, seen |-> FALSE,
     method |-> "", a |-> None, b |-> None, entryValue |-> None,
     nested |-> FALSE, nestedDone |-> FALSE,
     \* history of the call
     entryCount |-> 0, entryRules |-> <<>>, entryConfig |-> <<0, FALSE, FALSE>>,
     entryCache |-> EmptyCache,
     callNo |-> 0, calls |-> 0,
     checked |-> FALSE, hit |-> FALSE, afterPurge |-> FALSE,
     prevSame |-> FALSE, prevResult |-> NoResult]

\* Referee.__init__ with rules=None: no rules, counter 0, a fresh lock; the
\* constructor arguments are drawn once and used for every Referee
Init ==
    /\ rules = [r \in Referees |-> <<>>]
    /\ validation_count = [r \in Referees |-> 0]
    /\ \E m \in 1..MaxCeiling : max_validations = [r \in Referees |-> m]
    /\ \E b \in BOOLEAN : enable_caching = [r \in Referees |-> b]
    /\ \E b \in BOOLEAN : fail_fast = [r \in Referees |-> b]
    /\ lock = [r \in Referees |-> NoThread]
    /\ cache = EmptyCache
    /\ pc = [t \in Threads |-> "idle"]
    /\ frame = [t \in Threads |-> IdleFrame]
    /\ ret = [t \in Threads |-> NoRet]
    /\ validCalls = [r \in Referees |-> 0]
    /\ succCalls = [r \in Referees |-> 0]
    /\ lastValidate = [r \in Referees |-> NoLast]
    /\ purged = {}
    /\ InitRuleObjects
    /\ calc = NoCalc

Saturate(n, max) == IF n <= max THEN n + 1 ELSE n

\* ---------------------------------------------------------------- validate
\* a thread calls validate(action) and reaches "with self._lock:"
V_Call(t, r, arg) ==
    /\ pc[t] = "idle"
    /\ pc' = [pc EXCEPT ![t] = "v_acquire"]
    /\ frame' = [frame EXCEPT ![t] = [IdleFrame EXCEPT !.op = "validate", !.ref = r,
                                                       !.arg = arg]]
    /\ UNCHANGED <<calc, ruleVars, progVars, ret, histVars>>

\* the lock is taken
V_Acquire(t) ==
    LET r == frame[t].ref IN
    /\ pc[t] = "v_acquire"
    /\ LockAvailable(lock[r])
    /\ lock' = [lock EXCEPT ![r] = t]
    /\ pc' = [pc EXCEPT ![t] = "v_check"]
    /\ frame' = [frame EXCEPT ![t].entryCount = validation_count[r],
                              ![t].entryRules = rules[r],
                              ![t].entryCache = cache]
    /\ UNCHANGED <<calc, ruleVars, rules, validation_count, max_validations, enable_caching, fail_fast,
                   cache, ret, histVars>>

\* the resource limit check and the input validation
V_Check(t) ==
    LET r == frame[t].ref
        arg == frame[t].arg
    IN
    /\ pc[t] = "v_check"
    /\ IF CeilingReached(validation_count[r], max_validations[r]) THEN
          /\ ret' = [ret EXCEPT ![t] = RetRaise("ResourceExhaustedError",
                        <<"Maximum validation limit of ", ToString(max_validations[r]),
                          " reached. ", "Consider resetting or increasing the limit.">>)]
          /\ pc' = [pc EXCEPT ![t] = "v_exit"]
       ELSE IF arg.tag = "None" THEN
          /\ ret' = [ret EXCEPT ![t] = RetRaise("ValidationError",
                                                <<"Action cannot be None">>)]
          /\ pc' = [pc EXCEPT ![t] = "v_exit"]
       ELSE IF ~IsAction(arg) THEN
          /\ ret' = [ret EXCEPT ![t] = RetRaise("ValidationError",
                                                <<"Expected Action, got ", arg.tag>>)]
          /\ pc' = [pc EXCEPT ![t] = "v_exit"]
       ELSE
          /\ ret' = ret
          /\ pc' = [pc EXCEPT ![t] = "v_incr"]
    /\ frame' = [frame EXCEPT
                    ![t].callNo = IF arg.tag = "Action"
                                  THEN Saturate(validCalls[r], max_validations[r])
                                  ELSE 0,
                    ![t].checked = ~CeilingReached(validation_count[r], max_validations[r])
                                   /\ IsAction(arg)]
    /\ validCalls' = IF arg.tag = "Action"
                     THEN [validCalls EXCEPT ![r] = Saturate(@, max_validations[r])]
                     ELSE validCalls
    /\ UNCHANGED <<calc, ruleVars, progVars, succCalls, lastValidate, purged>>

\* the counter is incremented; the call goes on to the cached or the uncached path
V_Incr(t) ==
    LET r == frame[t].ref IN
    /\ pc[t] = "v_incr"
    /\ validation_count' = [validation_count EXCEPT ![r] = Increment(@)]
    /\ pc' = [pc EXCEPT ![t] = IF enable_caching[r] THEN "v_lookup" ELSE "v_uncached"]
    /\ UNCHANGED <<calc, ruleVars, rules, max_validations, enable_caching, fail_fast, lock, cache, frame,
                   ret, histVars>>

\* _validate_cached: the lru_cache wrapper looks the key up; validate returns
\* what it finds
V_Lookup(t) ==
    LET r == frame[t].ref
        key == CacheKey(r, frame[t].arg.action)
        last == lastValidate[r]
        hit == CacheHit(cache, key)
    IN
    /\ pc[t] = "v_lookup"
    /\ frame' = [frame EXCEPT
                    ![t].hit = hit,
                    ![t].result = IF hit THEN cache[key] ELSE NoResult,
                    ![t].afterPurge = key \in purged,
                    ![t].prevSame = last.live /\ last.action = frame[t].arg.action,
                    ![t].prevResult = last.result]
    /\ pc' = [pc EXCEPT ![t] = IF hit THEN "v_exit" ELSE "v_uncached"]
    /\ ret' = IF hit THEN [ret EXCEPT ![t] = RetResult(cache[key])] ELSE ret
    /\ purged' = purged \ {key}
    /\ lastValidate' = IF hit
                       THEN [lastValidate EXCEPT ![r] =
                               [live |-> TRUE, action |-> frame[t].arg.action,
                                result |-> cache[key]]]
                       ELSE lastValidate
    /\ UNCHANGED <<calc, ruleVars, progVars, validCalls, succCalls>>

\* _validate_uncached returns result: to the lru_cache wrapper when caching is
\* enabled, else to validate, which returns it
Settle(t, r, result) ==
    IF enable_caching[r]
    THEN pc' = [pc EXCEPT ![t] = "v_store"] /\ ret' = ret
    ELSE pc' = [pc EXCEPT ![t] = "v_exit"] /\ ret' = [ret EXCEPT ![t] = RetResult(result)]

\* _validate_uncached starts: its locals, then the fast path without rules
V_Uncached(t) ==
    LET r == frame[t].ref
        loc == InitLocals(validation_count[r])
    IN
    /\ pc[t] = "v_uncached"
    /\ IF NoRulesConfigured(rules[r]) THEN
          /\ frame' = [frame EXCEPT ![t].loc = loc, ![t].result = NoRulesResult(loc)]
          /\ Settle(t, r, NoRulesResult(loc))
       ELSE
          /\ frame' = [frame EXCEPT ![t].loc = loc, ![t].i = 1]
          /\ pc' = [pc EXCEPT ![t] = "v_rule"]
          /\ ret' = ret
    /\ UNCHANGED <<calc, ruleVars, progVars, histVars>>

\* one turn of "for rule in self._rules", and the return after the last one
V_Rule(t) ==
    LET r == frame[t].ref
        f == frame[t]
    IN
    /\ pc[t] = "v_rule"
    /\ IF f.i <= Len(rules[r]) /\ ~f.loc.stop /\ rules[r][f.i] = CallbackRule
          /\ ~f.nestedDone THEN
          \* evaluate runs the rule's hook, which calls reset() on this Referee
          /\ frame' = [frame EXCEPT ![t].nested = TRUE, ![t].calls = f.calls + 1]
          /\ pc' = [pc EXCEPT ![t] = "r_acquire"]
          /\ ret' = ret
       ELSE IF f.i <= Len(rules[r]) /\ ~f.loc.stop /\ rules[r][f.i] = CallbackRule THEN
          \* reset() came back to the hook, which returns its pair
          /\ frame' = [frame EXCEPT
                          ![t].loc = OnReturned(f.loc, rules[r][f.i],
                                                Returned(TRUE, <<"called back">>),
                                                fail_fast[r]),
                          ![t].i = f.i + 1,
                          ![t].nested = FALSE,
                          ![t].nestedDone = FALSE]
          /\ pc' = pc
          /\ ret' = ret
       ELSE IF f.i <= Len(rules[r]) /\ ~f.loc.stop THEN
          /\ frame' = [frame EXCEPT
                          ![t].loc = ApplyRule(f.loc, rules[r][f.i], f.arg.action,
                                               fail_fast[r]),
                          ![t].i = f.i + 1,
                          ![t].calls = f.calls + 1]
          /\ pc' = pc
          /\ ret' = ret
       ELSE
          /\ frame' = [frame EXCEPT ![t].result = LoopResult(f.loc)]
          /\ Settle(t, r, LoopResult(f.loc))
    /\ UNCHANGED <<calc, ruleVars, progVars, histVars>>

\* _validate_cached: the lru_cache wrapper stores what _validate_uncached
\* returned, and validate returns it
V_Store(t) ==
    LET r == frame[t].ref
        key == CacheKey(r, frame[t].arg.action)
    IN
    /\ pc[t] = "v_store"
    /\ cache' = CacheStore(cache, key, frame[t].result)
    /\ lastValidate' = [lastValidate EXCEPT ![r] =
                          [live |-> TRUE, action |-> frame[t].arg.action,
                           result |-> frame[t].result]]
    /\ ret' = [ret EXCEPT ![t] = RetResult(frame[t].result)]
    /\ pc' = [pc EXCEPT ![t] = "v_exit"]
    /\ UNCHANGED <<calc, ruleVars, rules, validation_count, max_validations, enable_caching, fail_fast,
                   lock, frame, validCalls, succCalls, purged>>

\* the with block is left, by return or by raise: the lock is released
V_Exit(t) ==
    LET r == frame[t].ref IN
    /\ pc[t] = "v_exit"
    /\ lock' = [lock EXCEPT ![r] = Released(@)]
    /\ succCalls' = IF ret[t].kind = "result"
                    THEN [succCalls EXCEPT ![r] = Saturate(@, max_validations[r])]
                    ELSE succCalls
    /\ pc' = [pc EXCEPT ![t] = "done"]
    /\ UNCHANGED <<calc, ruleVars, rules, validation_count, max_validations, enable_caching, fail_fast,
                   cache, frame, ret, validCalls, lastValidate, purged>>

\* ---------------------------------------------------------------- add_rule
\* threads that passed add_rule's checks on r and have not appended yet
Appending(r) == {u \in Threads : frame[u].op = "add_rule" /\ frame[u].ref = r
                                 /\ pc[u] \in {"a_acquire", "a_append"}}

\* a thread calls add_rule(rule): the input validation, before the lock
A_Call(t, r, arg, cap) ==
    /\ pc[t] = "idle"
    /\ Len(rules[r]) + Cardinality(Appending(r)) < cap
    /\ frame' = [frame EXCEPT ![t] = [IdleFrame EXCEPT !.op = "add_rule", !.ref = r,
                                                       !.rule = arg,
                                                       !.entryRules = rules[r]]]
    /\ IF arg.tag = "None" THEN
          /\ ret' = [ret EXCEPT ![t] = RetRaise("ValidationError", <<"Rule cannot be None">>)]
          /\ pc' = [pc EXCEPT ![t] = "done"]
       ELSE IF ~IsRule(arg) THEN
          /\ ret' = [ret EXCEPT ![t] = RetRaise("ValidationError",
                                                <<"Expected Rule instance, got ", arg.tag>>)]
          /\ pc' = [pc EXCEPT ![t] = "done"]
       ELSE
          /\ ret' = ret
          /\ pc' = [pc EXCEPT ![t] = "a_acquire"]
    /\ UNCHANGED <<calc, ruleVars, progVars, histVars>>

A_Acquire(t) ==
    LET r == frame[t].ref IN
    /\ pc[t] = "a_acquire"
    /\ LockAvailable(lock[r])
    /\ lock' = [lock EXCEPT ![r] = t]
    /\ pc' = [pc EXCEPT ![t] = "a_append"]
    /\ UNCHANGED <<calc, ruleVars, rules, validation_count, max_validations, enable_caching, fail_fast,
                   cache, frame, ret, histVars>>

\* self._rules.append(rule), then the with block is left
A_Append(t) ==
    LET r == frame[t].ref IN
    /\ pc[t] = "a_append"
    /\ rules' = [rules EXCEPT ![r] = AppendRule(@, frame[t].rule.rule)]
    /\ lock' = [lock EXCEPT ![r] = NoThread]
    /\ ret' = [ret EXCEPT ![t] = RetNone]
    /\ pc' = [pc EXCEPT ![t] = "done"]
    /\ UNCHANGED <<calc, ruleVars, validation_count, max_validations, enable_caching, fail_fast, cache,
                   frame, histVars>>

\* ------------------------------------------------------ clear_cache, reset
\* what a purge of the class's lru_cache does to the history
PurgeHistory ==
    /\ purged' = purged \cup DOMAIN cache
    /\ lastValidate' = [r \in Referees |-> NoLast]

\* clear_cache(), called by a thread directly: no lock is taken
ClearCache(t, r) ==
    /\ pc[t] = "idle"
    /\ frame' = [frame EXCEPT ![t] = [IdleFrame EXCEPT !.op = "clear_cache", !.ref = r]]
    /\ cache' = cache_clear(cache)
    /\ PurgeHistory
    /\ ret' = [ret EXCEPT ![t] = RetNone]
    /\ pc' = [pc EXCEPT ![t] = "done"]
    /\ UNCHANGED <<calc, ruleVars, rules, validation_count, max_validations, enable_caching, fail_fast,
                   lock, validCalls, succCalls>>

R_Call(t, r) ==
    /\ pc[t] = "idle"
    /\ pc' = [pc EXCEPT ![t] = "r_acquire"]
    /\ frame' = [frame EXCEPT ![t] = [IdleFrame EXCEPT !.op = "reset", !.ref = r]]
    /\ UNCHANGED <<calc, ruleVars, progVars, ret, histVars>>

R_Acquire(t) ==
    LET r == frame[t].ref IN
    /\ pc[t] = "r_acquire"
    /\ LockAvailable(lock[r])
    /\ lock' = [lock EXCEPT ![r] = t]
    /\ pc' = [pc EXCEPT ![t] = "r_zero"]
    /\ frame' = [frame EXCEPT ![t].entryRules = rules[r],
                              ![t].entryCount = validation_count[r],
                              ![t].entryConfig = <<max_validations[r], enable_caching[r],
                                                   fail_fast[r]>>]
    /\ UNCHANGED <<calc, ruleVars, rules, validation_count, max_validations, enable_caching, fail_fast,
                   cache, ret, histVars>>

\* self._validation_count = 0
R_Zero(t) ==
    LET r == frame[t].ref IN
    /\ pc[t] = "r_zero"
    /\ validation_count' = [validation_count EXCEPT ![r] = CountAfterReset(@)]
    /\ validCalls' = [validCalls EXCEPT ![r] = 0]
    /\ succCalls' = [succCalls EXCEPT ![r] = 0]
    /\ pc' = [pc EXCEPT ![t] = "r_clear"]
    /\ UNCHANGED <<calc, ruleVars, rules, max_validations, enable_caching, fail_fast, lock, cache,
                   frame, ret, lastValidate, purged>>

\* self.clear_cache()
R_Clear(t) ==
    /\ pc[t] = "r_clear"
    /\ cache' = cache_clear(cache)
    /\ PurgeHistory
    /\ pc' = [pc EXCEPT ![t] = "r_exit"]
    /\ UNCHANGED <<calc, ruleVars, rules, validation_count, max_validations, enable_caching, fail_fast,
                   lock, frame, ret, validCalls, succCalls>>

\* the with block is left: the lock is released
R_Exit(t) ==
    LET r == frame[t].ref IN
    /\ pc[t] = "r_exit"
    /\ lock' = [lock EXCEPT ![r] = NoThread]
    /\ IF frame[t].nested THEN
          \* reset() was called by a rule's hook: back to the hook
          /\ ret' = ret
          /\ pc' = [pc EXCEPT ![t] = "v_rule"]
          /\ frame' = [frame EXCEPT ![t].nestedDone = TRUE]
       ELSE
          /\ ret' = [ret EXCEPT ![t] = RetNone]
          /\ pc' = [pc EXCEPT ![t] = "done"]
          /\ frame' = frame
    /\ UNCHANGED <<calc, ruleVars, rules, validation_count, max_validations, enable_caching, fail_fast,
                   cache, histVars>>

\* the caller has the outcome of its call and is ready for the next one
Return(t) ==
    /\ pc[t] = "done"
    /\ pc' = [pc EXCEPT ![t] = "idle"]
    /\ frame' = [frame EXCEPT ![t] = IdleFrame]
    /\ ret' = [ret EXCEPT ![t] = NoRet]
    /\ UNCHANGED <<calc, ruleVars, progVars, histVars>>

\* ------------------------------------------------------------ the constructor
\* a Referee object that __init__ has not given a lock yet
Unset == "unset"

\* no Referee is constructed yet
InitCtor ==
    /\ rules = [r \in Referees |-> <<>>]
    /\ validation_count = [r \in Referees |-> 0]
    /\ max_validations = [r \in Referees |-> 0]
    /\ enable_caching = [r \in Referees |-> FALSE]
    /\ fail_fast = [r \in Referees |-> FALSE]
    /\ lock = [r \in Referees |-> Unset]
    /\ cache = EmptyCache
    /\ pc = [t \in Threads |-> "idle"]
    /\ frame = [t \in Threads |-> IdleFrame]
    /\ ret = [t \in Threads |-> NoRet]
    /\ validCalls = [r \in Referees |-> 0]
    /\ succCalls = [r \in Referees |-> 0]
    /\ lastValidate = [r \in Referees |-> NoLast]
    /\ purged = {}
    /\ InitRuleObjects
    /\ calc = NoCalc

\* a thread calls Referee(rules, max_validations, enable_caching, fail_fast)
N_Call(t, r, args) ==
    /\ pc[t] = "idle"
    /\ lock[r] = Unset
    /\ \A u \in Threads : frame[u].ref # r
    /\ pc' = [pc EXCEPT ![t] = "n_range"]
    /\ frame' = [frame EXCEPT ![t] = [IdleFrame EXCEPT !.op = "__init__", !.ref = r,
                                                       !.ctor = args]]
    /\ UNCHANGED <<calc, ruleVars, progVars, ret, histVars>>

\* __init__ failed: the handler raises its ConfigurationError
N_Fail(t, exc, text) ==
    LET e == InitFailure(exc, text) IN
    /\ ret' = [ret EXCEPT ![t] = RetRaise(e.exc, e.text)]
    /\ pc' = [pc EXCEPT ![t] = "done"]

\* the check of max_validations, then the fields are initialized
N_Range(t) ==
    LET r == frame[t].ref
        a == frame[t].ctor
    IN
    /\ pc[t] = "n_range"
    /\ IF ~InRange(a.max_validations) THEN
          /\ N_Fail(t, "ConfigurationError",
                    <<"max_validations must be between 1 and 1,000,000, got ",
                      ToString(a.max_validations)>>)
          /\ UNCHANGED progVars
       ELSE
          /\ rules' = [rules EXCEPT ![r] = <<>>]
          /\ lock' = [lock EXCEPT ![r] = NoThread]
          /\ validation_count' = [validation_count EXCEPT ![r] = 0]
          /\ max_validations' = [max_validations EXCEPT ![r] = a.max_validations]
          /\ enable_caching' = [enable_caching EXCEPT ![r] = a.enable_caching]
          /\ fail_fast' = [fail_fast EXCEPT ![r] = a.fail_fast]
          /\ pc' = [pc EXCEPT ![t] = "n_rules"]
          /\ UNCHANGED <<cache, ret>>
    /\ UNCHANGED <<calc, ruleVars, frame, histVars>>

\* "if rules is not None": the isinstance check of the rules argument
N_Rules(t) ==
    LET a == frame[t].ctor IN
    /\ pc[t] = "n_rules"
    /\ IF a.rules.tag = "None" THEN
          /\ ret' = [ret EXCEPT ![t] = RetNone]
          /\ pc' = [pc EXCEPT ![t] = "done"]
          /\ frame' = frame
       ELSE IF a.rules.tag # "list" THEN
          /\ N_Fail(t, "ValidationError", <<"rules must be a list">>)
          /\ frame' = frame
       ELSE
          /\ ret' = ret
          /\ pc' = [pc EXCEPT ![t] = "n_add"]
          /\ frame' = [frame EXCEPT ![t].i = 1]
    /\ UNCHANGED <<calc, ruleVars, progVars, histVars>>

\* one turn of "for rule in rules: self.add_rule(rule)", and the end of
\* __init__ after the last one; nobody else knows the object, so add_rule
\* takes and releases the lock undisturbed
N_Add(t) ==
    LET r == frame[t].ref
        items == frame[t].ctor.rules.items
        i == frame[t].i
    IN
    /\ pc[t] = "n_add"
    /\ IF i > Len(items) THEN
          /\ ret' = [ret EXCEPT ![t] = RetNone]
          /\ pc' = [pc EXCEPT ![t] = "done"]
          /\ UNCHANGED <<rules, frame>>
       ELSE IF items[i].tag = "None" THEN
          /\ N_Fail(t, "ValidationError", <<"Rule cannot be None">>)
          /\ UNCHANGED <<rules, frame>>
       ELSE IF ~IsRule(items[i]) THEN
          /\ N_Fail(t, "ValidationError", <<"Expected Rule instance, got ", items[i].tag>>)
          /\ UNCHANGED <<rules, frame>>
       ELSE
          /\ rules' = [rules EXCEPT ![r] = AppendRule(@, items[i].rule)]
          /\ frame' = [frame EXCEPT ![t].i = i + 1]
          /\ UNCHANGED <<pc, ret>>
    /\ UNCHANGED <<calc, ruleVars, validation_count, max_validations, enable_caching, fail_fast, lock,
                   cache, histVars>>

\* the caller has the new Referee, or the exception
N_Return(t) ==
    /\ pc[t] = "done" /\ frame[t].op = "__init__"
    /\ pc' = [pc EXCEPT ![t] = "idle"]
    /\ UNCHANGED <<calc, ruleVars, progVars, frame, ret, histVars>>

SeqsUpTo(S, n) == UNION {[1..k -> S] : k \in 0..n}

\* what the caller passes: a max_validations at and around both limits, a
\* rules argument that is None, a tuple, or a list of None, a string and Rules
CtorMaxValidations == {0, 1, MaxCeiling, MaxValidationsLimit, MaxValidationsLimit + 1}
CtorItems == {RuleArgNone, RuleArgStr, RuleArg(AlwaysValidRule),
              RuleArg(ActionTypeRule("login"))}
CtorRules == {RulesNone, RulesTuple}
             \cup {RulesList(items) : items \in SeqsUpTo(CtorItems, MaxCtorRules)}

NextCtor ==
    \/ \E rs \in CtorRules, m \in CtorMaxValidations, c \in BOOLEAN, f \in BOOLEAN :
          N_Call("t1", "A", CtorArgs(rs, m, c, f))
    \/ N_Range("t1")
    \/ N_Rules("t1")
    \/ N_Add("t1")
    \/ N_Return("t1")

\* one caller constructs one Referee
SpecCtor == InitCtor /\ [][NextCtor]_vars

\* ------------------------------------------ rules.py, models.py: direct calls
\* a thread calls rule.evaluate(action)
E_Call(t, rule, arg) ==
    /\ pc[t] = "idle"
    /\ pc' = [pc EXCEPT ![t] = "e_check"]
    /\ frame' = [frame EXCEPT ![t] = [IdleFrame EXCEPT !.op = "evaluate",
                                                       !.rule = RuleArg(rule),
                                                       !.arg = arg]]
    /\ UNCHANGED <<calc, ruleVars, progVars, ret, histVars>>

\* ValidationRule.evaluate, the input validation
E_Check(t) ==
    LET arg == frame[t].arg
        rule == frame[t].rule.rule
    IN
    /\ pc[t] = "e_check"
    /\ IF arg.tag = "None" THEN
          /\ ret' = [ret EXCEPT ![t] = RetRaise("ValidationError",
                                                <<"Action cannot be None">>)]
          /\ pc' = [pc EXCEPT ![t] = "done"]
       ELSE IF ~IsActionInstance(arg) THEN
          /\ ret' = [ret EXCEPT ![t] = RetRaise("ValidationError",
                                                <<"Expected Action, got ", arg.tag>>)]
          /\ pc' = [pc EXCEPT ![t] = "done"]
       ELSE
          /\ ret' = ret
          /\ pc' = [pc EXCEPT ![t] = IF rule \in CachedRules THEN "e_cached"
                                      ELSE "e_validate"]
    /\ UNCHANGED <<calc, ruleVars, progVars, frame, histVars>>

\* "return self._validate(action)" and the handlers, for a rule without cache
E_Validate(t) ==
    LET rule == frame[t].rule.rule
        h == Hook(rule, frame[t].arg.action)
    IN
    /\ pc[t] = "e_validate"
    /\ frame' = [frame EXCEPT ![t].hook = h, ![t].calls = frame[t].calls + 1]
    /\ ret' = [ret EXCEPT ![t] = RetOutcome(Handled(rule, h))]
    /\ pc' = [pc EXCEPT ![t] = "done"]
    /\ UNCHANGED <<calc, ruleVars, progVars, histVars>>

\* the same for a CachedValidationRule: _validate asks the lru_cache wrapper,
\* which answers from the cache or calls _validate_uncached and stores what
\* it returns
E_Cached(t) ==
    LET rule == frame[t].rule.rule
        a == frame[t].arg.action
        key == RuleCacheKey(a)
        c == rule_cache[rule.name]
        hit == key \in DOMAIN c
        call == CallUncached(rule, a)
        h == IF hit THEN c[key] ELSE call.out
    IN
    /\ pc[t] = "e_cached"
    /\ rule_cache' = IF ~hit /\ h.kind = "returned"
                     THEN [rule_cache EXCEPT ![rule.name] = (key :> h) @@ c]
                     ELSE rule_cache
    /\ rule_seen' = rule_seen \cup {<<rule.name, key>>}
    /\ frame' = [frame EXCEPT ![t].hook = h,
                              ![t].hit = hit,
                              ![t].seen = <<rule.name, key>> \in rule_seen,
                              ![t].calls = IF ~hit /\ call.ran THEN frame[t].calls + 1
                                           ELSE frame[t].calls]
    /\ ret' = [ret EXCEPT ![t] = RetOutcome(Handled(rule, h))]
    /\ pc' = [pc EXCEPT ![t] = "done"]
    /\ UNCHANGED <<calc, progVars, histVars>>

\* a thread calls rule.clear_cache() on a CachedValidationRule
RC_Clear(t, rule) ==
    /\ pc[t] = "idle"
    /\ frame' = [frame EXCEPT ![t] = [IdleFrame EXCEPT !.op = "rule.clear_cache",
                                                       !.rule = RuleArg(rule)]]
    /\ rule_cache' = [rule_cache EXCEPT ![rule.name] = rule_cache_clear(@)]
    /\ rule_seen' = {k \in rule_seen : k[1] # rule.name}
    /\ ret' = [ret EXCEPT ![t] = RetNone]
    /\ pc' = [pc EXCEPT ![t] = "done"]
    /\ UNCHANGED <<calc, progVars, histVars>>

\* a thread compares two Actions: a == b, hash(a), hash(b)
H_Compare(t, a, b) ==
    /\ pc[t] = "idle"
    /\ frame' = [frame EXCEPT ![t] = [IdleFrame EXCEPT !.op = "compare",
                                                       !.arg = ArgAction(a),
                                                       !.other = b]]
    /\ ret' = [ret EXCEPT ![t] = RetCompared(Action_eq(a, b), Action_hash(a),
                                             Action_hash(b))]
    /\ pc' = [pc EXCEPT ![t] = "done"]
    /\ UNCHANGED <<calc, ruleVars, progVars, histVars>>

\* the rule and Action objects exist, no Referee does
InitRules == InitCtor

NextRules ==
    \/ \E rule \in EvalRules, arg \in ValidateArgs : E_Call("t1", rule, arg)
    \/ E_Check("t1")
    \/ E_Validate("t1")
    \/ E_Cached("t1")
    \/ \E rule \in CachedRules : RC_Clear("t1", rule)
    \/ \E a, b \in Actions : H_Compare("t1", a, b)
    \/ Return("t1")

\* one caller of evaluate, clear_cache and the Action comparisons
SpecRules == InitRules /\ [][NextRules]_vars

\* ------------------------------------------------------------- calculators
\* Calculator(): _last_result is None, _result is 0
InitCalc ==
    /\ rules = [r \in Referees |-> <<>>]
    /\ validation_count = [r \in Referees |-> 0]
    /\ max_validations = [r \in Referees |-> 0]
    /\ enable_caching = [r \in Referees |-> FALSE]
    /\ fail_fast = [r \in Referees |-> FALSE]
    /\ lock = [r \in Referees |-> Unset]
    /\ cache = EmptyCache
    /\ pc = [t \in Threads |-> "idle"]
    /\ frame = [t \in Threads |-> IdleFrame]
    /\ ret = [t \in Threads |-> NoRet]
    /\ validCalls = [r \in Referees |-> 0]
    /\ succCalls = [r \in Referees |-> 0]
    /\ lastValidate = [r \in Referees |-> NoLast]
    /\ purged = {}
    /\ InitRuleObjects
    /\ \E k \in Calculators :
          calc = [kind |-> k, value |-> IF k = TwoOperand THEN None ELSE Num(0)]

\* the call is over with outcome o; the stored number becomes v
K_Finish(t, op, method, a, b, o, v) ==
    /\ o.value \in Numbers \cup {None}
    /\ frame' = [frame EXCEPT ![t] = [IdleFrame EXCEPT !.op = op, !.method = method,
                                                       !.a = a, !.b = b,
                                                       !.entryValue = calc.value]]
    /\ ret' = [ret EXCEPT ![t] =
                 IF o.kind = "raised"
                 THEN [RetRaise(o.exc, <<>>) EXCEPT !.value = o.value]
                 ELSE [NoRet EXCEPT !.kind = "value", !.value = o.value]]
    /\ calc' = [calc EXCEPT !.value = v]
    /\ pc' = [pc EXCEPT ![t] = "done"]
    /\ UNCHANGED <<ruleVars, progVars, histVars>>

\* calculator/calculator.py: add, subtract, multiply, divide(a, b):
\* self._last_result = self._<method>_op.execute(a, b); return self._last_result
K_Binary(t, method, a, b) ==
    LET o == Operation_execute(method, a, b) IN
    /\ pc[t] = "idle" /\ calc.kind = TwoOperand
    /\ K_Finish(t, "Calculator." \o method, method, a, b, o,
                IF o.kind = "raised" THEN calc.value ELSE o.value)

\* strategy-b, strategy-c: add, subtract, multiply, divide(value) on _result
K_Accumulate(t, method, value) ==
    LET o == IF method = "divide" /\ IsZero(value) THEN DivisionByZeroError(calc.value)
             ELSE Computed(Arith(method, calc.value, value))
    IN
    /\ pc[t] = "idle" /\ calc.kind \in {"strategy-b", "strategy-c"}
    /\ K_Finish(t, "Calculator." \o method, method, calc.value, value, o,
                IF o.kind = "raised" THEN calc.value ELSE o.value)

\* strategy-a: execute(operation, value)
K_Execute(t, operation, value) ==
    LET o == IF operation \notin Methods THEN InvalidOperationError
             ELSE IF operation = "divide" /\ IsZero(value)
                  THEN DivisionByZeroError(calc.value)
             ELSE Computed(Arith(operation, calc.value, value))
    IN
    /\ pc[t] = "idle" /\ calc.kind = "strategy-a"
    /\ K_Finish(t, "Calculator.execute", operation, calc.value, value, o,
                IF o.kind = "raised" THEN calc.value ELSE o.value)

\* get_last_result(), get_result()
K_Get(t) ==
    /\ pc[t] = "idle" /\ calc.kind \in Calculators
    /\ K_Finish(t, "Calculator.get", "", None, None, Computed(calc.value), calc.value)

\* clear() of the two-operand Calculator, reset() of the others
K_Clear(t) ==
    /\ pc[t] = "idle" /\ calc.kind \in Calculators
    /\ K_Finish(t, "Calculator.clear", "", None, None, Computed(None),
                IF calc.kind = TwoOperand THEN None ELSE Num(0))

NextCalc ==
    \/ \E a, b \in Numbers : K_Binary("t1", "add", a, b)
    \/ \E a, b \in Numbers : K_Binary("t1", "subtract", a, b)
    \/ \E a, b \in Numbers : K_Binary("t1", "multiply", a, b)
    \/ \E a, b \in Numbers : K_Binary("t1", "divide", a, b)
    \/ \E m \in Methods, v \in Numbers : K_Accumulate("t1", m, v)
    \/ \E m \in OperationNames, v \in Numbers : K_Execute("t1", m, v)
    \/ K_Get("t1")
    \/ K_Clear("t1")
    \/ Return("t1")

\* one caller of one Calculator of one of the four classes
SpecCalc == InitCalc /\ [][NextCalc]_vars

\* a step of thread t, its calls drawn from the given Referees and arguments
Step(t, refs, vargs, rargs, cap) ==
    \/ \E r \in refs, arg \in vargs : V_Call(t, r, arg)
    \/ V_Acquire(t)
    \/ V_Check(t)
    \/ V_Incr(t)
    \/ V_Lookup(t)
    \/ V_Uncached(t)
    \/ V_Rule(t)
    \/ V_Store(t)
    \/ V_Exit(t)
    \/ \E r \in refs, arg \in rargs : A_Call(t, r, arg, cap)
    \/ A_Acquire(t)
    \/ A_Append(t)
    \/ \E r \in refs : ClearCache(t, r)
    \/ \E r \in refs : R_Call(t, r)
    \/ R_Acquire(t)
    \/ R_Zero(t)
    \/ R_Clear(t)
    \/ R_Exit(t)
    \/ Return(t)

\* one caller, one Referee, every kind of rule, two Actions of different type
SeqValidateArgs == {ArgNone, ArgStr, ArgAction(Action("login", "d0")),
                    ArgAction(Action("logout", "d0"))}
Next == Step("t1", {"A"}, SeqValidateArgs, AddRuleArgs, MaxRules)

Spec == Init /\ [][Next]_vars

\* two callers on one Referee, with fewer kinds of argument
ConcValidateArgs == {ArgNone, ArgAction(Action("login", "d0"))}
ConcAddRuleArgs == {RuleArgNone, RuleArg(ActionTypeRule("login"))}
NextConc == \E t \in Threads : Step(t, {"A"}, ConcValidateArgs, ConcAddRuleArgs, MaxRulesConc)

SpecConc == Init /\ [][NextConc]_vars

\* one caller on two Referees, with one Action and one rule
TwoValidateArgs == {ArgAction(Action("login", "d0"))}
TwoAddRuleArgs == {RuleArg(ActionTypeRule("login"))}
NextTwo == Step("t1", Referees, TwoValidateArgs, TwoAddRuleArgs, MaxRulesConc)

SpecTwo == Init /\ [][NextTwo]_vars

\* one caller on one Referee whose rules may call back into it
CallbackValidateArgs == {ArgAction(Action("login", "d0")), ArgNone}
CallbackAddRuleArgs == {RuleArg(CallbackRule), RuleArg(AlwaysValidRule)}
NextCallback == Step("t1", {"A"}, CallbackValidateArgs, CallbackAddRuleArgs, MaxRules)

\* the steps of a call once it is made; those that take the lock wait for it
InCall(t) ==
    \/ V_Acquire(t)
    \/ V_Check(t)
    \/ V_Incr(t)
    \/ V_Lookup(t)
    \/ V_Uncached(t)
    \/ V_Rule(t)
    \/ V_Store(t)
    \/ V_Exit(t)
    \/ A_Acquire(t)
    \/ A_Append(t)
    \/ R_Acquire(t)
    \/ R_Zero(t)
    \/ R_Clear(t)
    \/ R_Exit(t)

\* the caller's thread runs whenever it can
SpecCallback == Init /\ [][NextCallback]_vars /\ WF_vars(InCall("t1"))

\* the steps of validate inside its with block: nothing in them waits
Running(t) ==
    \/ V_Check(t)
    \/ V_Incr(t)
    \/ V_Lookup(t)
    \/ V_Uncached(t)
    \/ V_Rule(t)
    \/ V_Store(t)
    \/ V_Exit(t)

\* the interpreter keeps scheduling a thread that can run: a thread inside
\* validate's with block takes its next step eventually
SpecConcFair == SpecConc /\ \A t \in Threads : WF_vars(Running(t))

\* ================================================================ claims
\* thread t is leaving validate's with block, the lock still held
Exiting(t) == pc[t] = "v_exit"
\* ... with a ValidationResult to return
Returning(t) == pc[t] = "v_exit" /\ ret[t].kind = "result"
\* ... with the named exception raised
Raising(t, exc) == pc[t] = "v_exit" /\ ret[t].kind = "raised" /\ ret[t].exc = exc
GivenAction(t) == frame[t].arg.tag = "Action"

\* C1: with ceiling C, the first C validate calls with an Action since
\* construction or the last reset return a result, the (C+1)-th raises
\* ResourceExhaustedError, and after reset() the count starts again, so
\* validate succeeds again.
C1_CeilingThenReset ==
    \A t \in Threads :
        Exiting(t) /\ GivenAction(t) =>
            LET r == frame[t].ref IN
            /\ frame[t].callNo <= max_validations[r] => ret[t].kind = "result"
            /\ frame[t].callNo > max_validations[r] =>
                   ret[t].kind = "raised" /\ ret[t].exc = "ResourceExhaustedError"

\* a Referee with ceiling 1 that validated an Action, which used it up, was
\* reset and now validates that Action again: the first call since the reset
C1_Witness ==
    \E t \in Threads :
        /\ Returning(t) /\ GivenAction(t)
        /\ max_validations[frame[t].ref] = 1
        /\ frame[t].callNo = 1
        /\ frame[t].afterPurge

\* C2: under any interleaving of validate, add_rule and reset callers on one
\* Referee, 0 <= validation_count <= max_validations, and no more than
\* max_validations validate calls succeed between two resets.
C2_CountWithinCeiling ==
    \A r \in Referees :
        /\ 0 <= validation_count[r]
        /\ validation_count[r] <= max_validations[r]
        /\ succCalls[r] <= max_validations[r]

\* the ceiling is reached while a second caller waits for the lock
C2_Witness ==
    \E t, u \in Threads :
        /\ t # u
        /\ Returning(t) /\ validation_count[frame[t].ref] = max_validations[frame[t].ref]
        /\ pc[u] = "v_acquire" /\ frame[u].ref = frame[t].ref

\* evaluate(rule, action) returns passed = true without raising
Passes(rule, action) ==
    LET o == evaluate(rule, action) IN o.kind = "returned" /\ o.passed

\* the rules a run of _validate_uncached evaluates: all of them, or with
\* fail_fast those up to and including the first that does not pass
ExpectedEvaluated(rs, action, failFast) ==
    LET failing == {i \in 1..Len(rs) : ~Passes(rs[i], action)} IN
    IF failFast /\ failing # {}
    THEN CHOOSE i \in failing : \A j \in failing : i <= j
    ELSE Len(rs)

\* the result has one message per rule of rs, in order, each prefixed with
\* the rule's name, and counts them all as evaluated
OneMessagePerRule(res, rs) ==
    /\ Len(res.messages) = Len(rs)
    /\ \A i \in 1..Len(rs) :
          i <= Len(res.messages) => res.messages[i].prefix = rs[i].name
    /\ res.metadata.rules_evaluated = Len(rs)

\* C3: with fail_fast off and N >= 1 rules registered when validate is
\* called, whatever add_rule, validate and reset calls preceded it, the
\* result has exactly N messages, the i-th prefixed with the i-th rule's
\* name, and rules_evaluated = N.  (Violated: add_rule leaves the lru_cache
\* as it is, and a later validate of a memoized Action returns the result
\* of the rules registered before.)
C3_OneMessagePerRegisteredRule ==
    \A t \in Threads :
        Returning(t) =>
            LET r == frame[t].ref IN
            ~fail_fast[r] /\ Len(rules[r]) >= 1 =>
                OneMessagePerRule(ret[t].result, rules[r])

\* where C3 does hold: the calls that evaluate the rules (caching off, or
\* no memoized result for the Action)
OneMessagePerRuleWhenEvaluated ==
    \A t \in Threads :
        Returning(t) /\ ~frame[t].hit =>
            LET r == frame[t].ref IN
            ~fail_fast[r] /\ Len(rules[r]) >= 1 =>
                OneMessagePerRule(ret[t].result, rules[r])

\* two rules, the first of which raises, evaluated after earlier calls
OneMessagePerRuleWhenEvaluated_Witness ==
    \E t \in Threads :
        LET r == frame[t].ref IN
        /\ Returning(t) /\ ~frame[t].hit
        /\ ~fail_fast[r] /\ enable_caching[r]
        /\ Len(rules[r]) = 2 /\ rules[r][1] = BrokenRule
        /\ frame[t].callNo = 2

AllTrue(bs) == \A i \in 1..Len(bs) : bs[i]

\* C4: in every result validate returns, is_valid is true iff every rule
\* evaluated for it passed (returned passed = true without raising); the
\* rules evaluated are the registered ones in order, with fail_fast on
\* those up to and including the first failing or erroring rule.
C4_ValidIffAllPassed ==
    \A t \in Threads :
        Returning(t) =>
            LET r == frame[t].ref
                res == ret[t].result
                a == frame[t].arg.action
            IN
            /\ res.is_valid = AllTrue(res.outcomes)
            /\ ~frame[t].hit =>
                  /\ Len(res.outcomes) = ExpectedEvaluated(rules[r], a, fail_fast[r])
                  /\ \A i \in 1..Len(res.outcomes) :
                        i <= Len(rules[r]) => res.outcomes[i] = Passes(rules[r][i], a)

\* fail_fast cuts the evaluation at a raising rule that a passing rule follows
C4_Witness ==
    \E t \in Threads :
        LET r == frame[t].ref IN
        /\ Returning(t) /\ ~frame[t].hit /\ fail_fast[r]
        /\ Len(rules[r]) = 2
        /\ ~Passes(rules[r][1], frame[t].arg.action)
        /\ evaluate(rules[r][1], frame[t].arg.action).kind # "returned"
        /\ Passes(rules[r][2], frame[t].arg.action)
        /\ ~ret[t].result.is_valid

\* C5: with zero registered rules, validate of an Action returns is_valid =
\* true, the single message "No rules configured - action accepted by
\* default" and rules_evaluated = rules_passed = rules_failed = 0, with
\* caching on or off.
C5_NoRulesAccepted ==
    \A t \in Threads :
        Returning(t) /\ rules[frame[t].ref] = <<>> =>
            LET res == ret[t].result IN
            /\ res.is_valid
            /\ res.messages =
                 <<Message("", "", <<"No rules configured - action accepted by default">>)>>
            /\ res.metadata.rules_evaluated = 0
            /\ res.metadata.rules_passed = 0
            /\ res.metadata.rules_failed = 0

\* a memoized answer of a Referee without rules
C5_Witness ==
    \E t \in Threads :
        /\ Returning(t) /\ rules[frame[t].ref] = <<>>
        /\ enable_caching[frame[t].ref] /\ frame[t].hit

\* C6: with memoization enabled, a validate call that follows a validate
\* call of an equal Action on the same Referee, the cache not purged in
\* between, returns an equal ValidationResult and calls evaluate on no rule.
C6_SecondCallMemoized ==
    \A t \in Threads :
        Returning(t) /\ enable_caching[frame[t].ref] /\ frame[t].prevSame =>
            /\ ret[t].result = frame[t].prevResult
            /\ frame[t].calls = 0

\* the second call, on a Referee with rules
C6_Witness ==
    \E t \in Threads :
        /\ Returning(t) /\ enable_caching[frame[t].ref] /\ frame[t].prevSame
        /\ Len(rules[frame[t].ref]) = 2
        /\ ret[t].result.metadata.rules_evaluated = 2

\* C7: a validate call that passes the ceiling check and the Action type
\* check leaves validation_count exactly 1 above what it found, whether the
\* result comes from the cache or from evaluating the rules.
C7_CountedOnce ==
    \A t \in Threads :
        Exiting(t) /\ frame[t].checked =>
            validation_count[frame[t].ref] = frame[t].entryCount + 1

\* a call answered from the cache has counted
C7_Witness ==
    \E t \in Threads :
        /\ Returning(t) /\ frame[t].checked /\ frame[t].hit
        /\ frame[t].entryCount = 1

\* thread t is inside reset's with block
InReset(t) == pc[t] \in {"r_zero", "r_clear", "r_exit"}
\* thread u is inside the with block of validate or of add_rule
InValidateOrAddRule(u) ==
    pc[u] \in {"v_check", "v_incr", "v_lookup", "v_uncached", "v_rule", "v_store",
               "v_exit", "a_append"}
\* the keys of Referee r that the cache holds
CachedFor(r) == {k \in DOMAIN cache : k[1] = r}

\* C8: reset() zeroes validation_count and empties the memoization cache as
\* one step with respect to validate and add_rule on the same Referee: from
\* taking the lock to releasing it no validate or add_rule is inside its own
\* locked section, the counter stays 0 once zeroed, the Referee has no
\* memoized result when reset leaves, and the rule list, the ceiling and the
\* caching and fail-fast flags are what they were.
C8_ResetAtomic ==
    \A t \in Threads :
        InReset(t) =>
            LET r == frame[t].ref IN
            /\ \A u \in Threads \ {t} : frame[u].ref = r => ~InValidateOrAddRule(u)
            /\ rules[r] = frame[t].entryRules
            /\ <<max_validations[r], enable_caching[r], fail_fast[r]>> = frame[t].entryConfig
            /\ pc[t] \in {"r_clear", "r_exit"} => validation_count[r] = 0
            /\ pc[t] = "r_exit" => CachedFor(r) = {}

\* a reset of a used Referee with a memoized result is about to release the
\* lock while a validate waits for it
C8_Witness ==
    \E t, u \in Threads :
        LET r == frame[t].ref IN
        /\ pc[t] = "r_exit" /\ frame[t].entryCount > 0
        /\ \E k \in purged : k[1] = r
        /\ Len(rules[r]) = 1
        /\ pc[u] = "v_acquire" /\ frame[u].ref = r

\* C9 as stated: after clear_cache() or reset(), validate of an Action whose
\* result was cached evaluates every registered rule again.
C9_Original ==
    \A t \in Threads :
        Returning(t) /\ frame[t].afterPurge =>
            /\ ~frame[t].hit
            /\ frame[t].calls = Len(rules[frame[t].ref])

\* C9 amended: after clear_cache() or reset() purged an Action's memoized
\* result, the next validate of that Action on that Referee is not answered
\* from the cache: it evaluates the registered rules again in order, all of
\* them with fail_fast off and those up to and including the first failing
\* or erroring rule with fail_fast on, so the result reflects the rules
\* registered at that moment.
C9_PurgedIsReevaluated ==
    \A t \in Threads :
        Returning(t) /\ frame[t].afterPurge =>
            LET r == frame[t].ref
                res == ret[t].result
                n == ExpectedEvaluated(rules[r], frame[t].arg.action, fail_fast[r])
            IN
            /\ ~frame[t].hit
            /\ frame[t].calls = n
            /\ res.metadata.rules_evaluated = n
            /\ res.metadata.validation_number = validation_count[r]
            /\ rules[r] # <<>> =>
                  /\ Len(res.messages) = n
                  /\ \A i \in 1..n :
                        i <= Len(res.messages) => res.messages[i].prefix = rules[r][i].name

\* re-validation after a purge, with fail_fast stopping at the first of two rules
C9_Witness ==
    \E t \in Threads :
        LET r == frame[t].ref IN
        /\ Returning(t) /\ frame[t].afterPurge
        /\ fail_fast[r] /\ Len(rules[r]) = 2 /\ frame[t].calls = 1

\* thread t's add_rule call is over and its argument was None or no Rule
AddRuleOfNonRule(t) ==
    pc[t] = "done" /\ frame[t].op = "add_rule" /\ frame[t].rule.tag # "Rule"

ValidateOfNonAction(t) ==
    /\ pc[t] = "done" /\ frame[t].op = "validate" /\ frame[t].arg.tag # "Action"
    /\ ~CeilingReached(frame[t].entryCount, max_validations[frame[t].ref])

\* C11: validate(action) with action None or not an Action, on a Referee
\* below its ceiling, raises ValidationError and leaves validation_count,
\* the rule list and the cache as they were (the lock is free again), so
\* the next validate finds the Referee as if the call had not happened.
C11_RejectedCallLeavesNoTrace ==
    \A t \in Threads :
        ValidateOfNonAction(t) =>
            LET r == frame[t].ref IN
            /\ ret[t].kind = "raised" /\ ret[t].exc = "ValidationError"
            /\ validation_count[r] = frame[t].entryCount
            /\ rules[r] = frame[t].entryRules
            /\ cache = frame[t].entryCache
            /\ lock[r] = NoThread

\* a string is refused by a Referee that has counted a call, has a rule and
\* holds a memoized result
C11_Witness ==
    \E t \in Threads :
        LET r == frame[t].ref IN
        /\ ValidateOfNonAction(t) /\ frame[t].arg.tag = "str"
        /\ ret[t].kind = "raised"
        /\ validation_count[r] = 1 /\ Len(rules[r]) = 1
        /\ CachedFor(r) # {}

\* the rules of rs that do not pass for action, by position
Failing(rs, action) == {i \in 1..Len(rs) : ~Passes(rs[i], action)}
\* the rules of rs whose evaluate raises for action, by position
Raisers(rs, action) == {i \in 1..Len(rs) : evaluate(rs[i], action).kind # "returned"}
\* thread t's validate evaluated the rules and is leaving with the outcome
Evaluated(t) == Exiting(t) /\ frame[t].checked /\ ~frame[t].hit

\* C12: with fail_fast on, rule evaluation stops at the first rule that
\* returns passed = false or raises: evaluate is called on no later rule,
\* rules_evaluated is the 1-based position of that rule, and the result has
\* no message and no count for any later rule.
C12_FailFastStopsAtFirstFailure ==
    \A t \in Threads :
        LET r == frame[t].ref
            failing == Failing(rules[r], frame[t].arg.action)
        IN
        Returning(t) /\ ~frame[t].hit /\ fail_fast[r] /\ failing # {} =>
            LET k == CHOOSE i \in failing : \A j \in failing : i <= j
                res == ret[t].result
            IN
            /\ frame[t].calls = k
            /\ res.metadata.rules_evaluated = k
            /\ Len(res.messages) = k
            /\ res.metadata.rules_passed = k - 1
            /\ res.metadata.rules_failed = 1
            /\ ~res.is_valid

\* the first of two rules returns passed = false, the second would pass
C12_Witness ==
    \E t \in Threads :
        LET r == frame[t].ref
            a == frame[t].arg.action
        IN
        /\ Returning(t) /\ ~frame[t].hit /\ fail_fast[r]
        /\ Len(rules[r]) = 2
        /\ evaluate(rules[r][1], a).kind = "returned" /\ ~Passes(rules[r][1], a)
        /\ Passes(rules[r][2], a)
        /\ frame[t].calls = 1

\* the loop of thread t is about to evaluate a rule that raises, fail_fast off
AtRaisingRule(t) ==
    LET r == frame[t].ref
        f == frame[t]
    IN
    /\ pc[t] = "v_rule" /\ f.i <= Len(rules[r]) /\ ~f.loc.stop /\ ~fail_fast[r]
    /\ evaluate(rules[r][f.i], f.arg.action).kind # "returned"

\* what the result of a call says of the raising rules, fail_fast off
RaisersRecorded(t) ==
    LET r == frame[t].ref
        a == frame[t].arg.action
        raisers == Raisers(rules[r], a)
    IN
    Evaluated(t) /\ ~fail_fast[r] /\ raisers # {} =>
        /\ ret[t].kind = "result"
        /\ ~ret[t].result.is_valid
        /\ frame[t].calls = Len(rules[r])
        /\ ret[t].result.metadata.rules_evaluated = Len(rules[r])
        /\ ret[t].result.metadata.rules_failed = Cardinality(Failing(rules[r], a))
        /\ Len(ret[t].result.messages) = Len(rules[r])
        /\ \A i \in raisers :
              i <= Len(ret[t].result.messages) =>
                 /\ ret[t].result.messages[i].prefix = rules[r][i].name
                 /\ ret[t].result.messages[i].form \in {"ValidationError", "Error"}

\* what one turn of the loop does with a raising rule, fail_fast off
RaiserStep(t) ==
    AtRaisingRule(t) =>
        LET m == frame[t].loc.metadata
            loc == frame[t].loc
        IN
        /\ pc'[t] = "v_rule"
        /\ frame'[t].i = frame[t].i + 1
        /\ ~frame'[t].loc.stop
        /\ frame'[t].loc.metadata.rules_failed = m.rules_failed + 1
        /\ frame'[t].loc.metadata.rules_evaluated = m.rules_evaluated + 1
        /\ frame'[t].loc.metadata.rules_passed = m.rules_passed
        /\ Len(frame'[t].loc.messages) = Len(loc.messages) + 1
        /\ ~frame'[t].loc.is_valid

\* C13: with fail_fast off, a rule whose evaluate raises an exception is
\* recorded as one failing outcome with one message (rules_failed and
\* rules_evaluated each grow by 1, is_valid becomes false), validate still
\* returns a ValidationResult rather than raising, and every rule
\* registered after it is still evaluated.
C13_RaisingRuleIsolated ==
    /\ [](\A t \in Threads : RaisersRecorded(t))
    /\ [][\A t \in Threads : RaiserStep(t)]_vars

\* a rule that raises RuntimeError is followed by a rule that passes
C13_Witness ==
    \E t \in Threads :
        LET r == frame[t].ref
            a == frame[t].arg.action
        IN
        /\ Evaluated(t) /\ ~fail_fast[r]
        /\ Len(rules[r]) = 2 /\ rules[r][1] = BrokenRule /\ Passes(rules[r][2], a)
        /\ ret[t].kind = "result"
        /\ ret[t].result.metadata.rules_passed = 1

\* C15: in every ValidationResult produced by evaluating rules,
\* rules_evaluated = rules_passed + rules_failed and rules_evaluated is at
\* most the number of registered rules; when every registered rule passes,
\* is_valid is true, rules_passed is the number of rules and rules_failed
\* is 0.
C15_CountsAddUp ==
    \A t \in Threads :
        Returning(t) /\ ~frame[t].hit =>
            LET r == frame[t].ref
                a == frame[t].arg.action
                md == ret[t].result.metadata
            IN
            /\ md.rules_evaluated = md.rules_passed + md.rules_failed
            /\ md.rules_evaluated <= Len(rules[r])
            /\ Failing(rules[r], a) = {} =>
                  /\ ret[t].result.is_valid
                  /\ md.rules_passed = Len(rules[r])
                  /\ md.rules_failed = 0

\* two rules, both passing
C15_Witness ==
    \E t \in Threads :
        LET r == frame[t].ref IN
        /\ Returning(t) /\ ~frame[t].hit
        /\ Len(rules[r]) = 2 /\ Failing(rules[r], frame[t].arg.action) = {}
        /\ ret[t].result.metadata.rules_passed = 2

\* thread t's constructor call is over
Constructed(t) == pc[t] = "done" /\ frame[t].op = "__init__"
\* the rules argument is a list that holds None or an object that is no Rule
HoldsNonRule(rs) == rs.tag = "list" /\ \E i \in 1..Len(rs.items) : rs.items[i].tag # "Rule"

Compared(t) == pc[t] = "done" /\ frame[t].op = "compare"
\* thread t's call of evaluate is over
Evaluate(t) == pc[t] = "done" /\ frame[t].op = "evaluate"

\* C16 as stated: equality and hash of an Action depend on action_type
\* only: two Actions with the same action_type and different data compare
\* equal and hash identically.
C16_Original ==
    \A t \in Threads :
        Compared(t) =>
            LET a == frame[t].arg.action
                b == frame[t].other
            IN
            /\ ret[t].eq = (a.action_type = b.action_type)
            /\ a.action_type = b.action_type => ret[t].hashes[1] = ret[t].hashes[2]

\* C16 amended: the hash of an Action depends on action_type only, equality
\* on action_type and data: two Actions with the same action_type hash
\* identically whatever their data, and compare equal iff their data are
\* equal too.
C16_HashByTypeEqualityByFields ==
    \A t \in Threads :
        Compared(t) =>
            LET a == frame[t].arg.action
                b == frame[t].other
            IN
            /\ a.action_type = b.action_type => ret[t].hashes[1] = ret[t].hashes[2]
            /\ ret[t].eq = (a.action_type = b.action_type /\ a.data = b.data)
            /\ ret[t].eq => ret[t].hashes[1] = ret[t].hashes[2]

\* two Actions of one type with different data: one hash, not equal
C16_Witness ==
    \E t \in Threads :
        /\ Compared(t)
        /\ frame[t].arg.action.action_type = frame[t].other.action_type
        /\ frame[t].arg.action.data # frame[t].other.data
        /\ ret[t].hashes[1] = ret[t].hashes[2]
        /\ ~ret[t].eq

\* C17: ValidationRule.evaluate(action) raises ValidationError when action
\* is None or not an Action, and the subclass hook is not called then.
C17_EvaluateRejectsNonAction ==
    \A t \in Threads :
        Evaluate(t) /\ frame[t].arg.tag # "Action" =>
            /\ ret[t].kind = "raised" /\ ret[t].exc = "ValidationError"
            /\ frame[t].calls = 0
            /\ frame[t].hook = NoOutcome

\* a string handed to an ActionTypeRule
C17_Witness ==
    \E t \in Threads :
        /\ Evaluate(t) /\ frame[t].arg.tag = "str"
        /\ frame[t].rule.rule.cls = "ActionTypeRule"
        /\ ret[t].kind = "raised"

\* C18: when the hook of a ValidationRule raises an exception that is not a
\* ValidationError, evaluate raises a ValidationError whose text carries the
\* rule's name and the original message; when the hook raises a
\* ValidationError, that error propagates unchanged; no other exception
\* type escapes evaluate.
C18_HookErrorsBecomeValidationErrors ==
    \A t \in Threads :
        Evaluate(t) =>
            LET h == frame[t].hook
                name == frame[t].rule.rule.name
            IN
            /\ ret[t].kind = "raised" => ret[t].exc = "ValidationError"
            /\ h.kind \notin {"none", "returned", "ValidationError"} =>
                  /\ ret[t].kind = "raised"
                  /\ ret[t].text = <<"Rule '", name, "' failed: ">> \o h.text
            /\ h.kind = "ValidationError" =>
                  /\ ret[t].kind = "raised"
                  /\ ret[t].text = h.text

\* a hook that raised RuntimeError("boom")
C18_Witness ==
    \E t \in Threads :
        /\ Evaluate(t) /\ frame[t].rule.rule = HookRaisesRule
        /\ frame[t].hook.kind = "RuntimeError"
        /\ ret[t].kind = "raised"
        /\ ret[t].text = <<"Rule '", "HookRaisesRule", "' failed: ", "boom">>

\* C19: for a CachedValidationRule subclass, evaluate(action) returns the
\* (passed, message) pair that its hook _validate_uncached(action) returns
\* for that action, and a repeated evaluate of an Action with the same type
\* and the same data rendering returns that pair without calling the hook
\* again until clear_cache() is called.  (Violated: _validate calls the
\* wrapped hook with three positional arguments, so a hook that takes the
\* Action never runs and evaluate raises ValidationError.)
C19_MemoizingRuleReturnsHookPair ==
    \A t \in Threads :
        Evaluate(t) /\ frame[t].rule.rule = CachedRule /\ frame[t].arg.tag = "Action" =>
            LET o == CachedRule_validate_uncached(CachedRule, frame[t].arg.action) IN
            /\ ret[t].kind = "pair"
            /\ ret[t].passed = o.passed /\ ret[t].text = o.text
            /\ frame[t].calls = IF frame[t].seen THEN 0 ELSE 1

\* where the memoization does work: a subclass whose hook takes the three
\* arguments of the key
MemoizingRuleWithKeyParameters ==
    \A t \in Threads :
        Evaluate(t) /\ frame[t].rule.rule = CachedRule3 /\ frame[t].arg.tag = "Action" =>
            LET a == frame[t].arg.action
                o == CachedRule3_validate_uncached(CachedRule3, Action_hash(a),
                                                   a.action_type, dict_str(a.data))
            IN
            /\ ret[t].kind = "pair"
            /\ ret[t].passed = o.passed /\ ret[t].text = o.text
            /\ frame[t].calls = IF frame[t].seen THEN 0 ELSE 1

\* C20: ActionTypeRule(expected).evaluate(action) returns (true, "Action
\* type '<t>' is valid") if and only if action.action_type = expected, and
\* otherwise (false, "Expected action type '<expected>', got '<t>'");
\* AlwaysValidRule returns (true, "Action is valid") for every Action.
C20_ConcreteRules ==
    \A t \in Threads :
        Evaluate(t) /\ frame[t].arg.tag = "Action" =>
            LET rule == frame[t].rule.rule
                ty == frame[t].arg.action.action_type
            IN
            /\ rule.cls = "ActionTypeRule" =>
                  /\ ret[t].kind = "pair"
                  /\ ret[t].passed = (ty = rule.expected_type)
                  /\ ret[t].passed => ret[t].text = <<"Action type '", ty, "' is valid">>
                  /\ ~ret[t].passed =>
                        ret[t].text = <<"Expected action type '", rule.expected_type,
                                        "', got '", ty, "'">>
            /\ rule.cls = "AlwaysValidRule" =>
                  /\ ret[t].kind = "pair"
                  /\ ret[t].passed
                  /\ ret[t].text = <<"Action is valid">>

\* an ActionTypeRule for "login" is given a "logout"
C20_Witness ==
    \E t \in Threads :
        /\ Evaluate(t) /\ frame[t].rule.rule = ActionTypeRule("login")
        /\ frame[t].arg = ArgAction(Action("logout", "d0"))
        /\ ret[t].kind = "pair" /\ ~ret[t].passed

\* the message the loop records for the outcome o of rule's evaluate
MessageFor(rule, o) ==
    Message(rule.name,
            CASE o.kind = "returned" -> ""
              [] o.kind = "ValidationError" -> "ValidationError"
              [] OTHER -> "Error",
            o.text)

\* C21: each message in a result built from rules has one of three forms:
\* "[<rule-name>] <message returned by the rule>" when evaluate returns,
\* "[<rule-name>] ValidationError: <text>" when evaluate raises
\* ValidationError with that text, and "[<rule-name>] Error: <text>" when
\* evaluate raises any other exception with that text.
C21_MessageForms ==
    \A t \in Threads :
        Returning(t) /\ ~frame[t].hit /\ rules[frame[t].ref] # <<>> =>
            LET rs == rules[frame[t].ref]
                res == ret[t].result
            IN
            /\ Len(res.messages) = res.metadata.rules_evaluated
            /\ Len(res.messages) <= Len(rs)
            /\ \A i \in 1..Len(res.messages) :
                  i <= Len(rs) =>
                     res.messages[i] =
                        MessageFor(rs[i], evaluate(rs[i], frame[t].arg.action))

\* a result with a ValidationError message and an Error message
C21_Witness ==
    \E t \in Threads :
        /\ Returning(t) /\ ~frame[t].hit
        /\ rules[frame[t].ref] = <<HookRaisesRule, BrokenRule>>
        /\ Len(ret[t].result.messages) = 2
        /\ ret[t].result.messages[1].form = "ValidationError"
        /\ ret[t].result.messages[2].form = "Error"

\* thread t's call divided by zero
DividedByZero(t) ==
    /\ pc[t] = "done" /\ frame[t].method = "divide" /\ frame[t].b = Num(0)
    /\ frame[t].op \in {"Calculator.divide", "Calculator.execute"}

\* C22: dividing by zero fails with DivisionByZeroError carrying the
\* dividend (two-operand Calculator) or the current result (accumulator
\* Calculators), and leaves the calculator's stored state (_last_result or
\* _result) exactly as it was before the call.
C22_DivisionByZero ==
    \A t \in Threads :
        DividedByZero(t) =>
            /\ ret[t].kind = "raised" /\ ret[t].exc = "DivisionByZeroError"
            /\ ret[t].value = IF calc.kind = TwoOperand THEN frame[t].a
                              ELSE frame[t].entryValue
            /\ calc.value = frame[t].entryValue

\* a two-operand Calculator that holds a result other than None and is
\* asked to divide another number by zero
C22_Witness ==
    \E t \in Threads :
        /\ DividedByZero(t) /\ calc.kind = TwoOperand
        /\ frame[t].entryValue = Num(2) /\ frame[t].a = Num(1)
        /\ ret[t].kind = "raised"

\* the same for an accumulator Calculator whose result is not 0
AccumulatorDividedByZero_Witness ==
    \E t \in Threads :
        /\ DividedByZero(t) /\ calc.kind = "strategy-a"
        /\ frame[t].entryValue = <<1, 2>>
        /\ ret[t].kind = "raised"

\* a step changes the rule list of r only by add_rule's append of its argument
OnlyAppended(r) ==
    rules'[r] # rules[r] =>
        \E t \in Threads :
            /\ pc[t] = "a_append" /\ frame[t].ref = r /\ frame[t].rule.tag = "Rule"
            /\ rules'[r] = Append(rules[r], frame[t].rule.rule)
            /\ pc'[t] = "done" /\ ret'[t].kind = "returned"

\* thread t's add_rule returned normally: the list is the one it found with
\* its rule appended
AddedLast(t) ==
    pc[t] = "done" /\ frame[t].op = "add_rule" /\ ret[t].kind = "returned" =>
        rules[frame[t].ref] = Append(frame[t].entryRules, frame[t].rule.rule)

\* thread t's uncached validate has evaluated the first rules of the list,
\* one after the other
EvaluatedInOrder(t) ==
    pc[t] \in {"v_rule", "v_store"} \/ (Exiting(t) /\ frame[t].checked /\ ~frame[t].hit) =>
        LET rs == rules[frame[t].ref]
            loc == frame[t].loc
        IN
        rs # <<>> =>
            /\ Len(loc.outcomes) <= Len(rs)
            /\ pc[t] = "v_rule" => Len(loc.outcomes) = frame[t].i - 1
            /\ Len(loc.messages) = Len(loc.outcomes)
            /\ \A j \in 1..Len(loc.outcomes) :
                  j <= Len(rs) =>
                     /\ loc.outcomes[j] = Passes(rs[j], frame[t].arg.action)
                     /\ loc.messages[j].prefix = rs[j].name

\* C23: the Referee's rule list only grows by appending: after any
\* sequence of add_rule, validate and reset calls the rules are exactly the
\* successfully added ones in the order they were added, and within one
\* uncached validate the rules are evaluated in that order.
C23_RulesInInsertionOrder ==
    /\ [][\A r \in Referees : OnlyAppended(r)]_vars
    /\ [](\A t \in Threads : AddedLast(t) /\ EvaluatedInOrder(t))

\* two different rules evaluated in the order they were added, after a
\* reset or clear_cache
C23_Witness ==
    \E t \in Threads :
        /\ Returning(t) /\ ~frame[t].hit /\ frame[t].afterPurge
        /\ rules[frame[t].ref] = <<ActionTypeRule("login"), BrokenRule>>
        /\ Len(ret[t].result.messages) = 2
        /\ ret[t].result.messages[1].prefix = "ActionTypeRule(login)"
        /\ ret[t].result.messages[2].prefix = "BrokenRule"

\* thread t is inside the with block of validate, add_rule or reset on r
InLocked(t, r) ==
    /\ frame[t].ref = r
    /\ pc[t] \in {"v_check", "v_incr", "v_lookup", "v_uncached", "v_rule", "v_store",
                  "v_exit", "a_append", "r_zero", "r_clear", "r_exit"}
\* thread t is in validate between its ceiling check and its return
InValidate(t) ==
    pc[t] \in {"v_check", "v_incr", "v_lookup", "v_uncached", "v_rule", "v_store", "v_exit"}

\* at most one thread is inside a with block of r, and it holds r's lock
OneInLocked ==
    \A r \in Referees :
        \A t, u \in Threads :
            InLocked(t, r) /\ InLocked(u, r) => t = u /\ lock[r] = t

\* a step of an add_rule or reset call of another thread, taken while t is
\* inside validate, leaves the rule list, the counter and the cache alone
NotDisturbed(t, u) ==
    /\ t # u /\ InValidate(t) /\ pc'[u] # pc[u]
    /\ frame[u].ref = frame[t].ref \/ frame'[u].ref = frame[t].ref
    /\ {frame[u].op, frame'[u].op} \cap {"add_rule", "reset"} # {}
    => /\ rules'[frame[t].ref] = rules[frame[t].ref]
       /\ validation_count'[frame[t].ref] = validation_count[frame[t].ref]
       /\ cache' = cache
       /\ pc'[t] = pc[t]

\* C24: on one Referee, add_rule's append, validate's whole sequence from
\* the ceiling check to the return, and reset's counter zeroing plus cache
\* purge each run inside the same lock, so no two of them interleave: a
\* concurrent add_rule or reset never changes the rule list, the counter or
\* the cache while a validate is between its ceiling check and its return.
C24_LockedSectionsExclude ==
    /\ []OneInLocked
    /\ [][\A t, u \in Threads : NotDisturbed(t, u)]_vars

\* a validate is evaluating its rule while a reset waits for the lock
C24_Witness ==
    \E t, u \in Threads :
        /\ pc[t] = "v_rule" /\ frame[t].i = 1
        /\ pc[u] = "r_acquire" /\ frame[u].ref = frame[t].ref
        /\ lock[frame[t].ref] = t

\* this step is thread t's lookup in the cache or its store into it (validate)
\* or its purge of it inside reset
TouchesInside(t) ==
    pc[t] \in {"v_lookup", "v_store", "r_clear"} /\ pc'[t] # pc[t]
\* this step is thread t's call of clear_cache()
TouchesDirectly(t) ==
    pc[t] = "idle" /\ frame'[t].op = "clear_cache"

\* C25 as stated: the memoization cache a Referee's validate reads and
\* writes is only ever read, written or purged by a thread that holds that
\* Referee's lock.
C25_Original ==
    [][\A t \in Threads :
          /\ TouchesInside(t) => lock[frame[t].ref] = t
          /\ TouchesDirectly(t) => lock[frame'[t].ref] = t]_vars

\* C25 amended: validate reads and writes the memoization cache, and reset
\* purges it, only while the calling thread holds the lock of the Referee
\* it was called on; clear_cache() called directly purges the cache without
\* taking or holding any lock, whoever holds one.
C25_CacheUnderLockButForClearCache ==
    [][\A t \in Threads :
          /\ TouchesInside(t) => lock[frame[t].ref] = t
          /\ TouchesDirectly(t) =>
                /\ lock' = lock
                /\ lock[frame'[t].ref] # t
                /\ cache' = EmptyCache]_vars

\* a clear_cache() that purged a memoized result while another thread held
\* the lock inside validate: the cache held a result when validate took the
\* lock and is empty at its lookup
C25_Witness ==
    \E t, u \in Threads :
        /\ pc[u] = "done" /\ frame[u].op = "clear_cache"
        /\ frame[t].ref = frame[u].ref /\ lock[frame[t].ref] = t
        /\ pc[t] = "v_lookup"
        /\ frame[t].entryCache # EmptyCache
        /\ cache = EmptyCache

\* thread t's validate is over: it returned a result or raised
ValidateOver(t) ==
    /\ pc[t] = "done" /\ frame[t].op = "validate"
    /\ ret[t].kind \in {"result", "raised"}
\* the lock of a Referee is held only by a thread inside one of its with blocks
HeldOnlyInside ==
    \A r \in Referees, t \in Threads : lock[r] = t => InLocked(t, r)

\* C26: every validate call that has acquired the lock eventually returns
\* a ValidationResult or raises (each rule's evaluate returns or raises),
\* and the lock is free of it afterwards in both cases, so a later
\* add_rule, validate or reset is never blocked by a validate that has
\* finished or failed.
C26_ValidateCompletesAndReleases ==
    /\ \A t \in Threads : (pc[t] = "v_check") ~> ValidateOver(t)
    /\ []HeldOnlyInside
    /\ [](\A t \in Threads : ValidateOver(t) => lock[frame[t].ref] # t)

\* a validate failed at the ceiling and the next caller holds the lock
C26_Witness ==
    \E t, u \in Threads :
        /\ ValidateOver(t) /\ ret[t].kind = "raised"
        /\ ret[t].exc = "ResourceExhaustedError"
        /\ pc[u] = "v_check" /\ frame[u].ref = frame[t].ref
        /\ lock[frame[t].ref] = u

\* thread t's validate call is over and it found the Referee at its ceiling
ValidateAtCeiling(t) ==
    /\ pc[t] = "done" /\ frame[t].op = "validate"
    /\ frame[t].entryCount = max_validations[frame[t].ref]

\* C27: when validation_count has reached max_validations, validate raises
\* ResourceExhaustedError whatever its argument is (None and non-Actions
\* included), the message cites the configured maximum, and the counter,
\* the rule list and the cache stay as they were, so that every further
\* validate fails the same way until reset().
C27_ExhaustedRefusesEverything ==
    \A t \in Threads :
        ValidateAtCeiling(t) =>
            LET r == frame[t].ref IN
            /\ ret[t].kind = "raised" /\ ret[t].exc = "ResourceExhaustedError"
            /\ \E i \in 1..Len(ret[t].text) :
                  ret[t].text[i] = ToString(max_validations[r])
            /\ validation_count[r] = max_validations[r]
            /\ rules[r] = frame[t].entryRules
            /\ cache = frame[t].entryCache

\* None is refused for the ceiling, not for being None, by a Referee that
\* holds a memoized result
C27_Witness ==
    \E t \in Threads :
        /\ ValidateAtCeiling(t) /\ frame[t].arg.tag = "None"
        /\ ret[t].kind = "raised" /\ ret[t].exc = "ResourceExhaustedError"
        /\ max_validations[frame[t].ref] = 2
        /\ CachedFor(frame[t].ref) # {}

\* C28: in every ValidationResult returned by validate, metadata
\* validation_number equals the Referee's validation_count immediately
\* after that call, with caching on or off.  (Violated: a memoized result
\* carries the validation_number of the call that computed it.)
C28_ValidationNumberIsCount ==
    \A t \in Threads :
        Returning(t) =>
            ret[t].result.metadata.validation_number = validation_count[frame[t].ref]

\* where C28 does hold: the calls that evaluate the rules
ValidationNumberWhenEvaluated ==
    \A t \in Threads :
        Returning(t) /\ ~frame[t].hit =>
            ret[t].result.metadata.validation_number = validation_count[frame[t].ref]

\* this step is a purge of the cache by a call made on Referee r
Purges(r) ==
    \E t \in Threads :
        \/ pc[t] = "r_clear" /\ pc'[t] = "r_exit" /\ frame[t].ref = r
        \/ pc[t] = "idle" /\ frame'[t].op = "clear_cache" /\ frame'[t].ref = r

\* C29: reset() or clear_cache() on one Referee leaves every other
\* Referee's state unchanged, its memoized results included, so that a
\* later validate of a cached Action on the other Referee still does not
\* invoke its rules.  (Violated: the lru_cache of _validate_cached belongs
\* to the class, and cache_clear() empties it for every Referee.)
C29_PurgeLeavesOtherReferees ==
    [][\A r \in Referees :
          Purges(r) =>
              \A q \in Referees \ {r} :
                  /\ rules'[q] = rules[q]
                  /\ validation_count'[q] = validation_count[q]
                  /\ \A k \in DOMAIN cache :
                        k[1] = q => k \in DOMAIN cache' /\ cache'[k] = cache[k]]_vars

\* what the purge does leave alone: the other Referee's rules, counter,
\* configuration and lock
PurgeLeavesOtherFields ==
    [][\A r \in Referees :
          Purges(r) =>
              \A q \in Referees \ {r} :
                  /\ rules'[q] = rules[q]
                  /\ validation_count'[q] = validation_count[q]
                  /\ max_validations'[q] = max_validations[q]
                  /\ lock'[q] = lock[q]]_vars

\* C30: a validate call completes even when one of the registered rules'
\* evaluate calls add_rule, validate or reset on the Referee that is
\* running it: the nested call does not block forever on the Referee's
\* lock.  (Violated: the lock is a threading.Lock, which the thread that
\* holds it cannot take again; the nested call waits for it forever.)
C30_ReentrantValidateCompletes ==
    \A t \in Threads : (pc[t] = "v_check") ~> ValidateOver(t)

\* where C30 ends: the thread waits for the lock that it holds itself
SelfDeadlock ==
    \E t \in Threads :
        /\ pc[t] = "r_acquire" /\ frame[t].nested
        /\ lock[frame[t].ref] = t

\* the nested call never gets the lock
NestedCallNeverReturns ==
    \A t \in Threads : ~frame[t].nestedDone

====
